---- MODULE Spec2Model ----
(***************************************************************************)
(* Model of gobwas/json.go: the two JSON decoders of the repository.       *)
(*                                                                         *)
(*   package parser (src/parser.go): a Scanner producing tokens and a      *)
(*     recursive-descent Parser with a one-token pushback buffer;          *)
(*   package js (src/parse_test.go, from line 174): a cursor-based         *)
(*     recursive-descent parser working directly on the rune slice.        *)
(*                                                                         *)
(* A rune is its code point (an integer); a text is a sequence of runes.   *)
(* The recursion of both parsers is modelled by an explicit call stack;    *)
(* every loop iteration and every function entry is one action.            *)
(***************************************************************************)
EXTENDS Integers, Sequences, FiniteSets, TLC

(***************************************************************************)
(* Rune literals used by the source, by name.                              *)
(***************************************************************************)
Ord ==
  ("nul" :> 0) @@ ("{" :> 123) @@ ("}" :> 125) @@ ("[" :> 91) @@ ("]" :> 93) @@
  ("," :> 44) @@ (":" :> 58) @@ ("\"" :> 34) @@ ("\\" :> 92) @@ ("/" :> 47) @@
  ("sp" :> 32) @@ ("tab" :> 9) @@ ("lf" :> 10) @@ ("cr" :> 13) @@
  ("bs" :> 8) @@ ("ff" :> 12) @@
  ("-" :> 45) @@ ("+" :> 43) @@ ("." :> 46) @@ ("_" :> 95) @@
  ("0" :> 48) @@ ("1" :> 49) @@ ("2" :> 50) @@ ("3" :> 51) @@ ("4" :> 52) @@
  ("5" :> 53) @@ ("6" :> 54) @@ ("7" :> 55) @@ ("8" :> 56) @@ ("9" :> 57) @@
  ("A" :> 65) @@ ("B" :> 66) @@ ("C" :> 67) @@ ("D" :> 68) @@ ("E" :> 69) @@
  ("F" :> 70) @@
  ("a" :> 97) @@ ("b" :> 98) @@ ("c" :> 99) @@ ("d" :> 100) @@ ("e" :> 101) @@
  ("f" :> 102) @@ ("l" :> 108) @@ ("n" :> 110) @@ ("q" :> 113) @@
  ("r" :> 114) @@ ("s" :> 115) @@ ("t" :> 116) @@ ("u" :> 117) @@
  ("x" :> 120) @@ ("z" :> 122)

\* A text written as a tuple of rune names.
Str(t) == [i \in 1..Len(t) |-> Ord[t[i]]]

\* const eof = rune(0)
eof == 0

(***************************************************************************)
(* package parser: character classes                                       *)
(***************************************************************************)
isWhitespace(char) ==
  char = Ord["sp"] \/ char = Ord["lf"] \/ char = Ord["cr"] \/ char = Ord["tab"]

isLowerCaseLetter(char) == char >= Ord["a"] /\ char <= Ord["z"]

isDigit(char) == char >= Ord["0"] /\ char <= Ord["9"]

isNumeric(char) == isDigit(char) \/ char = Ord["-"]

\* unicode.IsControl: the category Cc, U+0000..U+001F and U+007F..U+009F.
IsControl(char) == (char >= 0 /\ char <= 31) \/ (char >= 127 /\ char <= 159)

(***************************************************************************)
(* package parser: the Scanner.  The reader is the input and the number    *)
(* pos of runes consumed.  read returns the rune read (eof at the end of   *)
(* input), the new position, and whether a rune was read; unread steps     *)
(* back over the rune just read and does nothing after a failed read       *)
(* (bufio.Reader.UnreadRune fails, and its error is dropped).              *)
(***************************************************************************)
read(in, pos) ==
  IF pos < Len(in)
    THEN [char |-> in[pos + 1], pos |-> pos + 1, ok |-> TRUE]
    ELSE [char |-> eof, pos |-> pos, ok |-> FALSE]

unread(r) == IF r.ok THEN r.pos - 1 ELSE r.pos

\* A Token: Literal is the text of Runes, so the model keeps Runes only.
Token(type, runes) == [Type |-> type, Runes |-> runes]

NoToken == Token("nil", <<>>)

\* What a scan function returns: (*Token, error) and the reader's position.
Scanned(token, pos) == [token |-> token, pos |-> pos, err |-> ""]

ScanError(msg, pos) == [token |-> NoToken, pos |-> pos, err |-> msg]

RECURSIVE scanWhitespaceLoop(_, _, _)
scanWhitespaceLoop(in, pos, buf) ==
  LET r == read(in, pos) IN
  IF isWhitespace(r.char) THEN scanWhitespaceLoop(in, r.pos, Append(buf, r.char))
  ELSE IF r.char = eof THEN Scanned(Token("WHITESPACE", buf), r.pos)
  ELSE Scanned(Token("WHITESPACE", buf), unread(r))

scanWhitespace(in, pos) == scanWhitespaceLoop(in, pos, <<>>)

RECURSIVE scanIdentifierLoop(_, _, _)
scanIdentifierLoop(in, pos, buf) ==
  LET r == read(in, pos) IN
  IF isLowerCaseLetter(r.char) THEN scanIdentifierLoop(in, r.pos, Append(buf, r.char))
  ELSE IF r.char = eof THEN [buf |-> buf, pos |-> r.pos]
  ELSE [buf |-> buf, pos |-> unread(r)]

scanIdentifier(in, pos) ==
  LET l == scanIdentifierLoop(in, pos, <<>>) IN
  IF l.buf = Str(<<"n", "u", "l", "l">>) THEN Scanned(Token("NULL", l.buf), l.pos)
  ELSE IF l.buf = Str(<<"t", "r", "u", "e">>) THEN Scanned(Token("TRUE", l.buf), l.pos)
  ELSE IF l.buf = Str(<<"f", "a", "l", "s", "e">>) THEN Scanned(Token("FALSE", l.buf), l.pos)
  ELSE Scanned(Token("ILLEGAL", l.buf), l.pos)

\* The escape letters scanString accepts after a backslash.
ScanEscapes ==
  { Ord["\""], Ord["\\"], Ord["/"], Ord["b"], Ord["f"], Ord["n"], Ord["r"],
    Ord["t"], Ord["u"] }

RECURSIVE scanStringLoop(_, _, _, _)
scanStringLoop(in, pos, buf, screen) ==
  LET r == read(in, pos) IN
  IF IsControl(r.char) THEN Scanned(Token("STRING", buf), unread(r))
  ELSE IF screen THEN
    IF r.char \in ScanEscapes
      THEN scanStringLoop(in, r.pos, Append(buf, r.char), FALSE)
      ELSE ScanError("unexpected end of input", r.pos)
  ELSE IF r.char = Ord["\\"] THEN scanStringLoop(in, r.pos, Append(buf, r.char), TRUE)
  ELSE IF r.char = Ord["\""] THEN Scanned(Token("STRING", Append(buf, r.char)), r.pos)
  ELSE IF r.char = eof THEN Scanned(Token("STRING", buf), r.pos)
  ELSE scanStringLoop(in, r.pos, Append(buf, r.char), FALSE)

scanString(in, pos) ==
  LET r == read(in, pos) IN
  IF r.char # Ord["\""]
    THEN Scanned(Token("STRING", <<>>), unread(r))
    ELSE scanStringLoop(in, r.pos, <<r.char>>, FALSE)

\* One iteration of scanNumber's loop in the given state on the rune char:
\* the next state when the rune extends the number, "stop" otherwise.
NumberNext(state, char) ==
  CASE state = "SIGN" ->
         IF char = Ord["0"] THEN "DECIMAL_LESS_THAN_ONE" ELSE "DECIMAL"
    [] state = "DECIMAL_LESS_THAN_ONE" ->
         IF char = Ord["."] THEN "FRACTIONAL" ELSE "stop"
    [] state = "DECIMAL" ->
         IF char = Ord["."] THEN "FRACTIONAL"
         ELSE IF isDigit(char) THEN "DECIMAL" ELSE "stop"
    [] state = "FRACTIONAL" ->
         IF char = Ord["E"] \/ char = Ord["e"] THEN "EXPONENTIAL_SIGN"
         ELSE IF isDigit(char) THEN "FRACTIONAL" ELSE "stop"
    [] state = "EXPONENTIAL_SIGN" ->
         IF char = Ord["+"] \/ char = Ord["-"] \/ isDigit(char)
           THEN "EXPONENTIAL" ELSE "stop"
    [] state = "EXPONENTIAL" ->
         IF isDigit(char) THEN "EXPONENTIAL" ELSE "stop"

RECURSIVE scanNumberLoop(_, _, _, _)
scanNumberLoop(in, pos, buf, state) ==
  LET r == read(in, pos)
      next == NumberNext(state, r.char)
  IN IF next = "stop"
       THEN Scanned(Token("NUMBER", buf), unread(r))
       ELSE scanNumberLoop(in, r.pos, Append(buf, r.char), next)

scanNumber(in, pos) ==
  LET r == read(in, pos) IN
  IF ~isNumeric(r.char) THEN Scanned(Token("NUMBER", <<>>), unread(r))
  ELSE scanNumberLoop(in, r.pos, <<r.char>>,
         IF r.char = Ord["-"] THEN "SIGN"
         ELSE IF r.char = Ord["0"] THEN "DECIMAL_LESS_THAN_ONE"
         ELSE "DECIMAL")

\* The single-rune tokens of Scan's second switch.
Delimiter(char) ==
  CASE char = eof -> "EOF"
    [] char = Ord["{"] -> "CURLY_BRACE_OPEN"
    [] char = Ord["}"] -> "CURLY_BRACE_CLOSE"
    [] char = Ord["["] -> "SQUARED_BRACE_OPEN"
    [] char = Ord["]"] -> "SQUARED_BRACE_CLOSE"
    [] char = Ord[":"] -> "COLON"
    [] char = Ord[","] -> "COMMA"
    [] OTHER -> "ILLEGAL"

Scan(in, pos) ==
  LET r == read(in, pos) IN
  IF isWhitespace(r.char) THEN scanWhitespace(in, unread(r))
  ELSE IF isLowerCaseLetter(r.char) THEN scanIdentifier(in, unread(r))
  ELSE IF r.char = Ord["\""] THEN scanString(in, unread(r))
  ELSE IF isNumeric(r.char) THEN scanNumber(in, unread(r))
  ELSE Scanned(Token(Delimiter(r.char), <<r.char>>), r.pos)

(***************************************************************************)
(* Library conversions, by what they compute.                              *)
(***************************************************************************)
\* A hexadecimal digit read with the lower-case letters only.
HexDigitLowerCase(char) ==
  IF isDigit(char) THEN char - Ord["0"]
  ELSE IF char >= Ord["a"] /\ char <= Ord["f"] THEN char - Ord["a"] + 10
  ELSE -1

HexDigit(char) ==
  IF isDigit(char) THEN char - Ord["0"]
  ELSE IF char >= Ord["a"] /\ char <= Ord["f"] THEN char - Ord["a"] + 10
  ELSE IF char >= Ord["A"] /\ char <= Ord["F"] THEN char - Ord["A"] + 10
  ELSE -1

\* strconv.ParseUint(s, 16, 64) on a text of four runes: the value of the
\* hexadecimal digits, or a syntax error when a rune is no hexadecimal digit.
RECURSIVE ParseUintLoop(_, _, _)
ParseUintLoop(s, i, n) ==
  IF i > Len(s) THEN [val |-> n, err |-> ""]
  ELSE IF HexDigit(s[i]) < 0 THEN [val |-> 0, err |-> "invalid syntax"]
  ELSE ParseUintLoop(s, i + 1, n * 16 + HexDigit(s[i]))

ParseUint(s) == ParseUintLoop(s, 1, 0)

\* fmt.Sprintf("%c", code): the rune with that code; a surrogate half or a
\* code above U+10FFFF is written as U+FFFD, the replacement character.
FmtC(code) ==
  IF (code >= 55296 /\ code <= 57343) \/ code > 1114111 THEN 65533 ELSE code

\* A float64 as the decimal it was read from: (-1)^neg * m * 10^e, with m not
\* a multiple of 10 (m = 0 and e = 0 for zero).  Two decimals of at most nine
\* significant digits between 1e-307 and the largest float64 denote the same
\* float64 exactly when they are the same decimal.
RECURSIVE Normal(_, _, _)
Normal(neg, m, e) ==
  IF m = 0 THEN [neg |-> neg, m |-> 0, e |-> 0]
  ELSE IF m % 10 = 0 THEN Normal(neg, m \div 10, e + 1)
  ELSE [neg |-> neg, m |-> m, e |-> e]

\* math.Inf: the value ParseFloat returns with a range error (no decimal).
Inf(neg) == [neg |-> neg, m |-> 0, e |-> 1]

\* The digits of a mantissa without the zeros that end it.
RECURSIVE Significant(_)
Significant(digits) ==
  IF digits # <<>> /\ digits[Len(digits)] = 0
    THEN Significant(SubSeq(digits, 1, Len(digits) - 1))
  ELSE digits

\* The number the digits write.
RECURSIVE DigitsValue(_)
DigitsValue(digits) ==
  IF digits = <<>> THEN 0
  ELSE 10 * DigitsValue(SubSeq(digits, 1, Len(digits) - 1)) + digits[Len(digits)]

\* The first place where the digits differ from those of the limit, 0 when
\* the shorter of the two begins the longer.
FirstDifference(digits, limit) ==
  LET differ == { i \in 1..Len(digits) :
                    i <= Len(limit) /\ digits[i] # limit[i] }
  IN IF differ = {} THEN 0
     ELSE CHOOSE i \in differ : \A k \in differ : i <= k

\* 2^1024 - 2^970, halfway between the largest float64 and 2^1024, digit by
\* digit (1.797693134862315807...e308): a decimal rounds to infinity exactly
\* when it is not below this number.
OverflowLimit ==
  << 1, 7, 9, 7, 6, 9, 3, 1, 3, 4, 8, 6, 2, 3, 1, 5, 8, 0, 7, 9, 3, 7, 2, 8,
     9, 7, 1, 4, 0, 5, 3, 0, 3, 4, 1, 5, 0, 7, 9, 9, 3, 4, 1, 3, 2, 7, 1, 0,
     0, 3, 7, 8, 2, 6, 9, 3, 6, 1, 7, 3, 7, 7, 8, 9, 8, 0, 4, 4, 4, 9, 6, 8,
     2, 9, 2, 7, 6, 4, 7, 5, 0, 9, 4, 6, 6, 4, 9, 0, 1, 7, 9, 7, 7, 5, 8, 7,
     2, 0, 7, 0, 9, 6, 3, 3, 0, 2, 8, 6, 4, 1, 6, 6, 9, 2, 8, 8, 7, 9, 1, 0,
     9, 4, 6, 5, 5, 5, 5, 4, 7, 8, 5, 1, 9, 4, 0, 4, 0, 2, 6, 3, 0, 6, 5, 7,
     4, 8, 8, 6, 7, 1, 5, 0, 5, 8, 2, 0, 6, 8, 1, 9, 0, 8, 9, 0, 2, 0, 0, 0,
     7, 0, 8, 3, 8, 3, 6, 7, 6, 2, 7, 3, 8, 5, 4, 8, 4, 5, 8, 1, 7, 7, 1, 1,
     5, 3, 1, 7, 6, 4, 4, 7, 5, 7, 3, 0, 2, 7, 0, 0, 6, 9, 8, 5, 5, 5, 7, 1,
     3, 6, 6, 9, 5, 9, 6, 2, 2, 8, 4, 2, 9, 1, 4, 8, 1, 9, 8, 6, 0, 8, 3, 4,
     9, 3, 6, 4, 7, 5, 2, 9, 2, 7, 1, 9, 0, 7, 4, 1, 6, 8, 4, 4, 4, 3, 6, 5,
     5, 1, 0, 7, 0, 4, 3, 4, 2, 7, 1, 1, 5, 5, 9, 6, 9, 9, 5, 0, 8, 0, 9, 3,
     0, 4, 2, 8, 8, 0, 1, 7, 7, 9, 0, 4, 1, 7, 4, 4, 9, 7, 7, 9, 2 >>

\* The significant digits of 2^-1075, half the smallest subnormal float64
\* (2.470328229206232720...e-324): a decimal other than zero rounds to zero
\* exactly when it is not above this number.
UnderflowLimit ==
  << 2, 4, 7, 0, 3, 2, 8, 2, 2, 9, 2, 0, 6, 2, 3, 2, 7, 2, 0, 8, 8, 2, 8, 4,
     3, 9, 6, 4, 3, 4, 1, 1, 0, 6, 8, 6, 1, 8, 2, 5, 2, 9, 9, 0, 1, 3, 0, 7,
     1, 6, 2, 3, 8, 2, 2, 1, 2, 7, 9, 2, 8, 4, 1, 2, 5, 0, 3, 3, 7, 7, 5, 3,
     6, 3, 5, 1, 0, 4, 3, 7, 5, 9, 3, 2, 6, 4, 9, 9, 1, 8, 1, 8, 0, 8, 1, 7,
     9, 9, 6, 1, 8, 9, 8, 9, 8, 2, 8, 2, 3, 4, 7, 7, 2, 2, 8, 5, 8, 8, 6, 5,
     4, 6, 3, 3, 2, 8, 3, 5, 5, 1, 7, 7, 9, 6, 9, 8, 9, 8, 1, 9, 9, 3, 8, 7,
     3, 9, 8, 0, 0, 5, 3, 9, 0, 9, 3, 9, 0, 6, 3, 1, 5, 0, 3, 5, 6, 5, 9, 5,
     1, 5, 5, 7, 0, 2, 2, 6, 3, 9, 2, 2, 9, 0, 8, 5, 8, 3, 9, 2, 4, 4, 9, 1,
     0, 5, 1, 8, 4, 4, 3, 5, 9, 3, 1, 8, 0, 2, 8, 4, 9, 9, 3, 6, 5, 3, 6, 1,
     5, 2, 5, 0, 0, 3, 1, 9, 3, 7, 0, 4, 5, 7, 6, 7, 8, 2, 4, 9, 2, 1, 9, 3,
     6, 5, 6, 2, 3, 6, 6, 9, 8, 6, 3, 6, 5, 8, 4, 8, 0, 7, 5, 7, 0, 0, 1, 5,
     8, 5, 7, 6, 9, 2, 6, 9, 9, 0, 3, 7, 0, 6, 3, 1, 1, 9, 2, 8, 2, 7, 9, 5,
     5, 8, 5, 5, 1, 3, 3, 2, 9, 2, 7, 8, 3, 4, 3, 3, 8, 4, 0, 9, 3, 5, 1, 9,
     7, 8, 0, 1, 5, 5, 3, 1, 2, 4, 6, 5, 9, 7, 2, 6, 3, 5, 7, 9, 5, 7, 4, 6,
     2, 2, 7, 6, 6, 4, 6, 5, 2, 7, 2, 8, 2, 7, 2, 2, 0, 0, 5, 6, 3, 7, 4, 0,
     0, 6, 4, 8, 5, 4, 9, 9, 9, 7, 7, 0, 9, 6, 5, 9, 9, 4, 7, 0, 4, 5, 4, 0,
     2, 0, 8, 2, 8, 1, 6, 6, 2, 2, 6, 2, 3, 7, 8, 5, 7, 3, 9, 3, 4, 5, 0, 7,
     3, 6, 3, 3, 9, 0, 0, 7, 9, 6, 7, 7, 6, 1, 9, 3, 0, 5, 7, 7, 5, 0, 6, 7,
     4, 0, 1, 7, 6, 3, 2, 4, 6, 7, 3, 6, 0, 0, 9, 6, 8, 9, 5, 1, 3, 4, 0, 5,
     3, 5, 5, 3, 7, 4, 5, 8, 5, 1, 6, 6, 6, 1, 1, 3, 4, 2, 2, 3, 7, 6, 6, 6,
     7, 8, 6, 0, 4, 1, 6, 2, 1, 5, 9, 6, 8, 0, 4, 6, 1, 9, 1, 4, 4, 6, 7, 2,
     9, 1, 8, 4, 0, 3, 0, 0, 5, 3, 0, 0, 5, 7, 5, 3, 0, 8, 4, 9, 0, 4, 8, 7,
     6, 5, 3, 9, 1, 7, 1, 1, 3, 8, 6, 5, 9, 1, 6, 4, 6, 2, 3, 9, 5, 2, 4, 9,
     1, 2, 6, 2, 3, 6, 5, 3, 8, 8, 1, 8, 7, 9, 6, 3, 6, 2, 3, 9, 3, 7, 3, 2,
     8, 0, 4, 2, 3, 8, 9, 1, 0, 1, 8, 6, 7, 2, 3, 4, 8, 4, 9, 7, 6, 6, 8, 2,
     3, 5, 0, 8, 9, 8, 6, 3, 3, 8, 8, 5, 8, 7, 9, 2, 5, 6, 2, 8, 3, 0, 2, 7,
     5, 5, 9, 9, 5, 6, 5, 7, 5, 2, 4, 4, 5, 5, 5, 0, 7, 2, 5, 5, 1, 8, 9, 3,
     1, 3, 6, 9, 0, 8, 3, 6, 2, 5, 4, 7, 7, 9, 1, 8, 6, 9, 4, 8, 6, 6, 7, 9,
     9, 4, 9, 6, 8, 3, 2, 4, 0, 4, 9, 7, 0, 5, 8, 2, 1, 0, 2, 8, 5, 1, 3, 1,
     8, 5, 4, 5, 1, 3, 9, 6, 2, 1, 3, 8, 3, 7, 7, 2, 2, 8, 2, 6, 1, 4, 5, 4,
     3, 7, 6, 9, 3, 4, 1, 2, 5, 3, 2, 0, 9, 8, 5, 9, 1, 3, 2, 7, 6, 6, 7, 2,
     3, 6, 3, 2, 8, 1, 2, 5 >>

\* Whether the decimal digits * 10^e (digits not empty, its first one not 0)
\* rounds beyond the largest float64, 1.7976931348623157e308.
Overflows(digits, e) ==
  LET beyond(at) ==
        IF at = 0 THEN Len(digits) >= Len(OverflowLimit)
        ELSE digits[at] > OverflowLimit[at]
  IN \/ Len(digits) + e - 1 > 308
     \/ /\ Len(digits) + e - 1 = 308
        /\ beyond(FirstDifference(digits, OverflowLimit))

\* Whether the decimal digits * 10^e (digits not empty, its first one not 0)
\* rounds to zero: it is at most half the smallest subnormal float64.
Underflows(digits, e) ==
  LET within(at) ==
        IF at = 0 THEN Len(digits) <= Len(UnderflowLimit)
        ELSE digits[at] < UnderflowLimit[at]
  IN \/ Len(digits) + e - 1 < -324
     \/ /\ Len(digits) + e - 1 = -324
        /\ within(FirstDifference(digits, UnderflowLimit))

\* The mantissa of a floating-point text from rune i on: digits with at most
\* one point, kept from the first digit that is not 0.  An underscore is accepted by the loop and refused afterwards
\* unless it separates two digits (underscoreOK).
RECURSIVE FloatMantissa(_, _, _)
FloatMantissa(s, i, acc) ==
  IF i > Len(s) THEN [acc EXCEPT !.i = i]
  ELSE LET c == s[i] IN
    IF c = Ord["_"]
      THEN FloatMantissa(s, i + 1,
             [acc EXCEPT !.bad = @ \/ ~acc.lastDigit, !.lastDigit = FALSE,
                         !.lastUnderscore = TRUE])
    ELSE IF c = Ord["."] /\ ~acc.sawdot
      THEN FloatMantissa(s, i + 1,
             [acc EXCEPT !.sawdot = TRUE, !.bad = @ \/ acc.lastUnderscore,
                         !.lastDigit = FALSE, !.lastUnderscore = FALSE])
    ELSE IF isDigit(c)
      THEN FloatMantissa(s, i + 1,
             [acc EXCEPT !.sawdigits = TRUE,
                         !.digits = IF @ = <<>> /\ c = Ord["0"] THEN <<>>
                                    ELSE Append(@, c - Ord["0"]),
                         !.frac = IF acc.sawdot THEN @ + 1 ELSE @,
                         !.lastDigit = TRUE, !.lastUnderscore = FALSE])
    ELSE [acc EXCEPT !.i = i]

RECURSIVE FloatExponent(_, _, _)
FloatExponent(s, i, acc) ==
  IF i > Len(s) THEN [acc EXCEPT !.i = i]
  ELSE LET c == s[i] IN
    IF c = Ord["_"]
      THEN FloatExponent(s, i + 1,
             [acc EXCEPT !.bad = @ \/ ~acc.lastDigit, !.lastDigit = FALSE,
                         !.lastUnderscore = TRUE])
    ELSE IF isDigit(c)
      THEN FloatExponent(s, i + 1,
             [acc EXCEPT !.e = IF @ < 10000 THEN @ * 10 + (c - Ord["0"]) ELSE @,
                         !.lastDigit = TRUE, !.lastUnderscore = FALSE])
    ELSE [acc EXCEPT !.i = i]

\* strconv.ParseFloat(s, 64) on the texts a number token can hold (no
\* hexadecimal prefix, no "inf", no "nan"): the float64, a syntax error, or
\* infinity and a range error when the value overflows.
ParseFloat(s) ==
  LET syntax == [f |-> Normal(FALSE, 0, 0), err |-> "invalid syntax"]
      signed == Len(s) >= 1 /\ (s[1] = Ord["-"] \/ s[1] = Ord["+"])
      neg == Len(s) >= 1 /\ s[1] = Ord["-"]
      mantissaStart == [i |-> 0, digits |-> <<>>, frac |-> 0, e |-> 0, sawdot |-> FALSE,
                        sawdigits |-> FALSE, bad |-> FALSE, lastDigit |-> FALSE,
                        lastUnderscore |-> FALSE]
      rounded(digits, e) ==
        IF digits = <<>> THEN [f |-> Normal(neg, 0, 0), err |-> ""]
        ELSE IF Overflows(digits, e)
          THEN [f |-> Inf(neg), err |-> "value out of range"]
        ELSE IF Underflows(digits, e) THEN [f |-> Normal(neg, 0, 0), err |-> ""]
        ELSE [f |-> Normal(neg, DigitsValue(digits), e), err |-> ""]
      decimal(digits, dropped, e) ==
        rounded(SubSeq(digits, 1, Len(digits) - dropped), e + dropped)
      exponent(man, hasExp, eneg, estart, exp) ==
        IF Len(s) = 0 \/ ~man.sawdigits THEN syntax
        ELSE IF hasExp /\ (estart > Len(s) \/ ~isDigit(s[estart])) THEN syntax
        ELSE IF exp.bad \/ exp.lastUnderscore THEN syntax
        ELSE IF exp.i <= Len(s) THEN syntax
        ELSE decimal(exp.digits, Len(exp.digits) - Len(Significant(exp.digits)),
                     (IF eneg THEN 0 - exp.e ELSE exp.e) - exp.frac)
      marker(man, hasExp, esigned) ==
        exponent(man, hasExp,
                 esigned /\ s[man.i + 1] = Ord["-"],
                 IF esigned THEN man.i + 2 ELSE man.i + 1,
                 IF hasExp
                   THEN FloatExponent(s, IF esigned THEN man.i + 2 ELSE man.i + 1,
                          [man EXCEPT !.lastDigit = FALSE, !.lastUnderscore = FALSE,
                                      !.bad = @ \/ man.lastUnderscore])
                   ELSE man)
      mantissa(man, hasExp) ==
        marker(man, hasExp,
               hasExp /\ man.i + 1 <= Len(s)
                 /\ (s[man.i + 1] = Ord["-"] \/ s[man.i + 1] = Ord["+"]))
      parsed(man) ==
        mantissa(man,
                 man.i <= Len(s) /\ (s[man.i] = Ord["e"] \/ s[man.i] = Ord["E"]))
  IN parsed(FloatMantissa(s, IF signed THEN 2 ELSE 1, mantissaStart))

(***************************************************************************)
(* The value tree both parsers build (Go's interface{}).                   *)
(***************************************************************************)
Nil == [t |-> "nil"]
\* A nil []interface{} and a nil map[string]interface{} held in an
\* interface{}.
NilArray == [t |-> "nil array"]
NilObject == [t |-> "nil object"]
Null == [t |-> "null"]
Bool(b) == [t |-> "bool", b |-> b]
Number(f) == [t |-> "number", f |-> f]
String(s) == [t |-> "string", s |-> s]
Array(a) == [t |-> "array", a |-> a]
Object(o) == [t |-> "object", o |-> o]

\* make(map[string]interface{}) and obj[key] = value
EmptyMap == <<>>

\* A map that keeps the value a key already has.
MapPutFirst(o, key, value) ==
  [k \in (DOMAIN o) \cup {key} |-> IF k \in DOMAIN o THEN o[k] ELSE value]

MapPut(o, key, value) ==
  [k \in (DOMAIN o) \cup {key} |-> IF k = key THEN value ELSE o[k]]

(***************************************************************************)
(* package parser: literal decoding                                        *)
(***************************************************************************)
\* What parseString returns: (string, error), or a run-time panic.
Decoded(str) == [str |-> str, err |-> "", panic |-> FALSE]

DecodeError(msg) == [str |-> <<>>, err |-> msg, panic |-> FALSE]

DecodePanic == [str |-> <<>>, err |-> "", panic |-> TRUE]

\* An escape letter taken for itself.
UnescapeLetter(symbol) == symbol

\* The rune an escape letter stands for in parseString, -1 for a letter that
\* is no escape ('u' is handled by the caller).
Unescape(symbol) ==
  CASE symbol = Ord["\\"] \/ symbol = Ord["\""] \/ symbol = Ord["/"] -> symbol
    [] symbol = Ord["b"] -> Ord["bs"]
    [] symbol = Ord["f"] -> Ord["ff"]
    [] symbol = Ord["n"] -> Ord["lf"]
    [] symbol = Ord["r"] -> Ord["cr"]
    [] symbol = Ord["t"] -> Ord["tab"]
    [] OTHER -> -1

\* The loop of parseString; index is Go's index (runes[index] is
\* runes[index + 1] here).  The token's runes come from bytes.Runes, whose
\* result has cap = len, so runes[index : index+4] panics when index + 4
\* exceeds len(runes).
RECURSIVE parseStringLoop(_, _, _, _, _)
parseStringLoop(runes, index, str, screen, hex) ==
  IF index >= Len(runes) THEN Decoded(str)
  ELSE LET symbol == runes[index + 1] IN
    IF hex THEN
      IF index + 4 > Len(runes) THEN DecodePanic
      ELSE LET code == ParseUint(SubSeq(runes, index + 1, index + 4)) IN
        IF code.err # "" THEN DecodeError("could not parse hex charcode")
        ELSE parseStringLoop(runes, index + 4, Append(str, FmtC(code.val)), FALSE, FALSE)
    ELSE IF screen THEN
      IF symbol = Ord["u"] THEN
        IF Len(runes) - index < 4 THEN DecodeError("unexpected length of hex symbol")
        ELSE parseStringLoop(runes, index + 1, str, FALSE, TRUE)
      ELSE IF Unescape(symbol) < 0
        THEN DecodeError("unexpected token after screen character")
      ELSE parseStringLoop(runes, index + 1, Append(str, Unescape(symbol)), FALSE, FALSE)
    ELSE IF symbol = Ord["\""] THEN Decoded(str)
    ELSE IF symbol = Ord["\\"] THEN parseStringLoop(runes, index + 1, str, TRUE, FALSE)
    ELSE parseStringLoop(runes, index + 1, Append(str, symbol), FALSE, FALSE)

parseString(runes) == parseStringLoop(runes, 1, <<>>, FALSE, FALSE)

\* "return 0, fmt.Errorf(...)" when ParseFloat gives an error, its number
\* otherwise.
parseNumber(runes) ==
  LET result(n) ==
        IF n.err # ""
          THEN [f |-> Normal(FALSE, 0, 0), err |-> "could not parse number"]
        ELSE n
  IN result(ParseFloat(runes))

(***************************************************************************)
(* The state of one run, as a record: the operations below are functions   *)
(* from the state before to the state after.                               *)
(*   pkg      which package's entry point was called                       *)
(*   input    the argument of ParseString / Parse                          *)
(*   pos, buf       package parser: the reader's position, Parser.buf      *)
(*   Index, Offset, Data, Cap    package js: the Parser's cursor; Cap is   *)
(*            cap(Data), which the runtime chooses                         *)
(*   calls    package parser: the latest calls of Parser.scan and          *)
(*            Parser.unscan, oldest first: what was called, the token a    *)
(*            scan returned, whether it read the Scanner, and the reader's *)
(*            position after the call                                      *)
(*   stack    the call stack, innermost call last                          *)
(*   ret      the value the call that just returned gave its caller, and   *)
(*            in the end the value returned to the user                    *)
(*   outcome  "running", or how the run ended: "ok" (a value and a nil     *)
(*            error), "error" (a non-nil error), "panic" (a run-time       *)
(*            panic: index or slice bounds out of range)                   *)
(*   err      the error returned                                           *)
(***************************************************************************)
Frame(fn, stage) ==
  [fn |-> fn, stage |-> stage, array |-> <<>>, obj |-> EmptyMap, key |-> <<>>]

Top(m) == m.stack[Len(m.stack)]

SetTop(m, frame) == [m EXCEPT !.stack[Len(m.stack)] = frame]

\* Call fn: a new frame on top of the caller's.
Call(m, fn) == [m EXCEPT !.stack = Append(@, Frame(fn, "enter"))]

\* "return fn()": a new frame on top of the caller's, which waits to return
\* what fn returns.
CallToReturn(m, fn) == Call(SetTop(m, [Top(m) EXCEPT !.stage = "return"]), fn)

\* A return that, from the outermost call of package parser, scans one more
\* token and gives an error unless the input ends there.
ReturnAtEof(m, value) ==
  LET rest == SubSeq(m.stack, 1, Len(m.stack) - 1) IN
  IF rest = <<>> /\ m.pkg = "parser" /\ Scan(m.input, m.pos).token.Type # "EOF"
    THEN [m EXCEPT !.stack = <<>>, !.ret = Nil, !.outcome = "error",
                   !.err = "unexpected token"]
    ELSE [m EXCEPT !.stack = rest, !.ret = value,
                   !.outcome = IF rest = <<>> THEN "ok" ELSE "running"]

\* "return value, nil": the frame is popped; the caller, if any, finds the
\* value in ret, and the outermost return ends the run.
Return(m, value) ==
  LET rest == SubSeq(m.stack, 1, Len(m.stack) - 1) IN
  [m EXCEPT !.stack = rest, !.ret = value,
            !.outcome = IF rest = <<>> THEN "ok" ELSE "running"]

\* The end of "return fn()": the caller returns the value fn returned.
ReturnResult(m) == Return(m, m.ret)

\* The nil a function returns beside an error, of its result type:
\* []interface{} for the arrays, map[string]interface{} for the objects,
\* interface{} for the others.
ZeroOf(fn) ==
  IF fn \in {"scanArray", "array"} THEN NilArray
  ELSE IF fn \in {"scanObject", "object"} THEN NilObject
  ELSE Nil

\* The value the i-th call of the stack returns beside the error when the
\* call above it returned value: "return fn()" passes the value on, "if err
\* != nil { return nil, err }" gives the caller's own nil.
RECURSIVE Unwound(_, _, _)
Unwound(stack, i, value) ==
  IF i = 0 THEN value
  ELSE Unwound(stack, i - 1,
                IF stack[i].stage = "return" THEN value ELSE ZeroOf(stack[i].fn))

\* "return value, err": every caller on the stack tests err and returns it at
\* once, so the run ends with the error, and beside it the value the
\* outermost call returns.
FailWith(m, msg, value) ==
  [m EXCEPT !.stack = <<>>, !.ret = Unwound(m.stack, Len(m.stack) - 1, value),
            !.outcome = "error", !.err = msg]

\* "return nil, err"
Fail(m, msg) == FailWith(m, msg, ZeroOf(Top(m).fn))

\* A run-time panic unwinds the whole stack: nothing recovers.
Panic(m) == [m EXCEPT !.stack = <<>>, !.ret = Nil, !.outcome = "panic"]

(***************************************************************************)
(* package parser: the Parser                                              *)
(***************************************************************************)
\* NewParser(strings.NewReader(str)), about to call Parse.
NewParserP(str) ==
  [pkg |-> "parser", input |-> str, pos |-> 0,
   buf |-> [token |-> NoToken, size |-> 0], calls |-> <<>>,
   Index |-> 0, Offset |-> 0, Data |-> <<>>, Cap |-> 0,
   stack |-> <<Frame("Parse", "enter")>>, ret |-> Nil,
   outcome |-> "running", err |-> ""]

\* scan, unscan, scanIgnoreWhitespace: the state after, the token and the
\* error returned.
Got(m, token, err) == [m |-> m, token |-> token, err |-> err]

\* How many of the latest calls are kept: more than one step makes.
MaxCalls == 6

\* The record of a call, added to calls: the call, the token returned, whether
\* the Scanner was read, and the reader's position after the call.
Called(m, op, token, fresh) ==
  LET all == Append(m.calls, [op |-> op, token |-> token, fresh |-> fresh,
                              pos |-> m.pos])
  IN [m EXCEPT !.calls = IF Len(all) > MaxCalls THEN Tail(all) ELSE all]

scan(m) ==
  LET scanned(s) ==
        IF s.err # ""
          THEN Got(Called([m EXCEPT !.pos = s.pos], "scan", NoToken, TRUE),
                   NoToken, s.err)
        ELSE Got(Called([m EXCEPT !.pos = s.pos, !.buf.token = s.token],
                        "scan", s.token, TRUE),
                 s.token, "")
  IN IF m.buf.size = 1
       THEN Got(Called([m EXCEPT !.buf.size = 0], "scan", m.buf.token, FALSE),
                m.buf.token, "")
       ELSE scanned(Scan(m.input, m.pos))

\* An unscan that leaves the buffer as it is.
unscanNothing(m) == Called(m, "unscan", NoToken, FALSE)

unscan(m) == Called([m EXCEPT !.buf.size = 1], "unscan", NoToken, FALSE)

scanIgnoreWhitespace(m) ==
  LET first(g) ==
        IF g.err # "" THEN g
        ELSE IF g.token.Type = "WHITESPACE" THEN scan(g.m)
        ELSE g
  IN first(scan(m))

\* Parse: the first token decides.
Parse(m) ==
  LET first(g) ==
        IF g.err # "" THEN Fail(g.m, g.err)
        ELSE IF g.token.Type = "CURLY_BRACE_OPEN"
          THEN CallToReturn(unscan(g.m), "scanObject")
        ELSE IF g.token.Type = "SQUARED_BRACE_OPEN"
          THEN CallToReturn(unscan(g.m), "scanArray")
        ELSE Fail(g.m, "found token, expected '{' or '['")
  IN first(scan(m))

scanValue(m) ==
  LET stringValue(n, d) ==
        IF d.panic THEN Panic(n)
        ELSE IF d.err # "" THEN FailWith(n, d.err, String(d.str))
        ELSE Return(n, String(d.str))
      numberValue(n, d) ==
        IF d.err # "" THEN FailWith(n, d.err, Number(d.f))
        ELSE Return(n, Number(d.f))
      switch(n, type, runes) ==
        IF type = "CURLY_BRACE_OPEN" THEN CallToReturn(unscan(n), "scanObject")
        ELSE IF type = "SQUARED_BRACE_OPEN" THEN CallToReturn(unscan(n), "scanArray")
        ELSE IF type = "STRING" THEN stringValue(n, parseString(runes))
        ELSE IF type = "NUMBER" THEN numberValue(n, parseNumber(runes))
        ELSE IF type = "NULL" THEN Return(n, Null)
        ELSE IF type = "FALSE" THEN Return(n, Bool(FALSE))
        ELSE IF type = "TRUE" THEN Return(n, Bool(TRUE))
        ELSE IF type = "ILLEGAL" THEN Fail(n, "illegal literal")
        ELSE Fail(n, "could not parse token as value")
      first(g) ==
        IF g.err # "" THEN Fail(g.m, g.err)
        ELSE switch(g.m, g.token.Type, g.token.Runes)
  IN first(scanIgnoreWhitespace(m))

\* scanArray up to its loop: the opening bracket and the empty array.
scanArrayEnter(m) ==
  LET first(g) ==
        IF g.err # "" THEN Fail(g.m, g.err)
        ELSE IF g.token.Type # "SQUARED_BRACE_OPEN"
          THEN Fail(g.m, "found token, expected '['")
        ELSE SetTop(g.m, [Frame("scanArray", "loop") EXCEPT !.array = <<>>])
  IN first(scan(m))

\* The token types scanArray hands to scanValue.
ArrayValueStart ==
  { "STRING", "NUMBER", "CURLY_BRACE_OPEN", "SQUARED_BRACE_OPEN", "TRUE",
    "FALSE", "NULL" }

\* One iteration of scanArray's loop, up to the call of scanValue.  The
\* switch has no default: any other token is dropped and the loop goes on.
scanArrayLoop(m) ==
  LET switch(n, type) ==
        IF type \in ArrayValueStart
          THEN Call(SetTop(unscan(n), [Top(n) EXCEPT !.stage = "call"]), "scanValue")
        ELSE IF type = "SQUARED_BRACE_CLOSE" THEN Return(n, Array(Top(n).array))
        ELSE n
      next(g) ==
        IF g.err # "" THEN Fail(g.m, g.err) ELSE switch(g.m, g.token.Type)
  IN next(scanIgnoreWhitespace(m))

\* The iteration after scanValue has returned: array = append(array, value)
scanArrayAppend(m) ==
  [SetTop(m, [Top(m) EXCEPT !.stage = "loop", !.array = Append(@, m.ret)])
     EXCEPT !.ret = Nil]

scanObjectEnter(m) ==
  LET first(g) ==
        IF g.err # "" THEN Fail(g.m, g.err)
        ELSE IF g.token.Type # "CURLY_BRACE_OPEN"
          THEN Fail(g.m, "found token, expected '{'")
        ELSE SetTop(g.m, [Frame("scanObject", "loop") EXCEPT !.obj = EmptyMap])
  IN first(scan(m))

\* One iteration of scanObject's loop, up to the call of scanValue.
scanObjectLoop(m) ==
  LET colon(key, c) ==
        IF c.err # "" THEN Fail(c.m, c.err)
        ELSE IF c.token.Type # "COLON" THEN Fail(c.m, "found token, expected ':'")
        ELSE Call(SetTop(c.m, [Top(c.m) EXCEPT !.stage = "call", !.key = key.str]),
                  "scanValue")
      member(n, key) ==
        IF key.panic THEN Panic(n)
        ELSE IF key.err # "" THEN Fail(n, key.err)
        ELSE colon(key, scanIgnoreWhitespace(n))
      switch(n, type, runes) ==
        IF type = "CURLY_BRACE_CLOSE" THEN Return(n, Object(Top(n).obj))
        ELSE IF type = "COMMA" THEN n
        ELSE IF type = "STRING" THEN member(n, parseString(runes))
        ELSE Fail(n, "unexpected token")
      next(g) ==
        IF g.err # "" THEN Fail(g.m, g.err)
        ELSE switch(g.m, g.token.Type, g.token.Runes)
  IN next(scanIgnoreWhitespace(m))

\* The iteration after scanValue has returned: obj[key] = value
scanObjectStore(m) ==
  [SetTop(m, [Top(m) EXCEPT !.stage = "loop", !.key = <<>>,
                            !.obj = MapPut(@, Top(m).key, m.ret)])
     EXCEPT !.ret = Nil]

(***************************************************************************)
(* package js: the cursor-based parser                                     *)
(***************************************************************************)
\* NewParser(input), about to call Parse, which is value().  cap is the
\* capacity the runtime gave []rune(input).
NewParserJ(str, cap) ==
  [pkg |-> "js", input |-> str, pos |-> 0,
   buf |-> [token |-> NoToken, size |-> 0], calls |-> <<>>,
   Index |-> 0, Offset |-> Len(str), Data |-> str, Cap |-> cap,
   stack |-> <<Frame("value", "enter")>>, ret |-> Nil,
   outcome |-> "running", err |-> ""]

\* A move that advances Index and leaves Offset as it is.
moveIndexOnly(m, step) == [m EXCEPT !.Index = @ + step]

move(m, step) == [m EXCEPT !.Index = @ + step, !.Offset = @ - step]

isComplete(m) == m.Offset = 0

\* Whether Data[Index] is an index out of range (a run-time panic).
OutOfRange(m) == m.Index < 0 \/ m.Index >= Len(m.Data)

\* The regular expressions WhiteSpace, NumberStart and NumberBody, each
\* matched against one rune.
WhiteSpace(char) ==
  char = Ord["sp"] \/ char = Ord["tab"] \/ char = Ord["lf"] \/ char = Ord["cr"]

NumberStart(char) == isDigit(char)

NumberBody(char) ==
  \/ isDigit(char)
  \/ char = Ord["+"] \/ char = Ord["-"] \/ char = Ord["."]
  \/ char = Ord["e"] \/ char = Ord["E"]

\* skipWhitespace: the state after, or a panic when the cursor is outside
\* Data although Offset is not 0.
RECURSIVE skipWhitespace(_)
skipWhitespace(m) ==
  IF isComplete(m) THEN [m |-> m, panic |-> FALSE]
  ELSE IF OutOfRange(m) THEN [m |-> m, panic |-> TRUE]
  ELSE IF ~WhiteSpace(m.Data[m.Index + 1]) THEN [m |-> m, panic |-> FALSE]
  ELSE skipWhitespace(move(m, 1))

\* slice(shift, len, move): Data[Index+shift : Index+len+shift].  A slice
\* expression is in range up to cap(Data); the runes between len(Data) and
\* cap(Data) are zero.
slice(m, shift, len, mv) ==
  LET lo == m.Index + shift
      hi == m.Index + len + shift
  IN IF lo < 0 \/ hi < lo \/ hi > m.Cap
       THEN [m |-> m, ret |-> <<>>, panic |-> TRUE]
       ELSE [m |-> IF mv THEN move(m, len + shift - 1) ELSE m,
             ret |-> [i \in 1..(hi - lo) |->
                        IF lo + i <= Len(m.Data) THEN m.Data[lo + i] ELSE 0],
             panic |-> FALSE]

sliceCurrent(m, len, mv) == slice(m, 0, len, mv)

\* getToken: the token's Type and Length, an error, or a panic when Index is
\* outside Data.
JsToken(type, length) == [Type |-> type, Length |-> length, err |-> "", panic |-> FALSE]

getToken(m) ==
  IF OutOfRange(m) THEN [Type |-> "nil", Length |-> 0, err |-> "", panic |-> TRUE]
  ELSE LET char == m.Data[m.Index + 1] IN
    IF char = Ord["{"] THEN JsToken("OBJECT_OPEN", 1)
    ELSE IF char = Ord["}"] THEN JsToken("OBJECT_CLOSE", 1)
    ELSE IF char = Ord["["] THEN JsToken("ARRAY_OPEN", 1)
    ELSE IF char = Ord["]"] THEN JsToken("ARRAY_CLOSE", 1)
    ELSE IF char = Ord["\""] THEN JsToken("STRING", 1)
    ELSE IF char = Ord[","] THEN JsToken("COMMA", 1)
    ELSE IF char = Ord[":"] THEN JsToken("COLON", 1)
    ELSE IF NumberStart(char) THEN JsToken("NUMBER", 1)
    ELSE IF m.Offset >= 4
            /\ sliceCurrent(m, 4, FALSE).ret = Str(<<"n", "u", "l", "l">>)
      THEN JsToken("NULL", 4)
    ELSE IF m.Offset >= 4
            /\ sliceCurrent(m, 4, FALSE).ret = Str(<<"t", "r", "u", "e">>)
      THEN JsToken("TRUE", 4)
    ELSE IF m.Offset >= 5
            /\ sliceCurrent(m, 5, FALSE).ret = Str(<<"f", "a", "l", "s", "e">>)
      THEN JsToken("FALSE", 5)
    ELSE [Type |-> "nil", Length |-> 0, err |-> "Unknown token", panic |-> FALSE]

\* What Parser.string and Parser.number return, with the state after.
JsDecoded(m, val) == [m |-> m, val |-> val, err |-> "", panic |-> FALSE]

\* zero is the value returned beside the error: "" or 0.
JsDecodeError(m, zero, msg) ==
  [m |-> m, val |-> zero, err |-> msg, panic |-> FALSE]

JsDecodePanic(m) == [m |-> m, val |-> <<>>, err |-> "", panic |-> TRUE]

\* An escaped symbol replaced by the rune it stands for, as parseString does.
JsUnescapeDecoded(symbol) ==
  IF Unescape(symbol) < 0 THEN <<>> ELSE <<Unescape(symbol)>>

\* What Parser.string appends for an escaped symbol: the symbol itself for
\* \\ \" \/, the backslash and the letter for b f n r t, nothing for any
\* other letter ('u' is handled by the caller).
JsUnescape(symbol) ==
  IF symbol = Ord["\\"] \/ symbol = Ord["\""] \/ symbol = Ord["/"] THEN <<symbol>>
  ELSE IF symbol \in {Ord["b"], Ord["f"], Ord["n"], Ord["r"], Ord["t"]}
    THEN <<Ord["\\"], symbol>>
  ELSE <<>>

\* The loop of Parser.string, from its condition; the loop's post statement
\* move(1) is applied where the source continues.
RECURSIVE stringLoop(_, _, _, _)
stringLoop(m, str, screen, hex) ==
  LET charcode(n, code) ==
        IF code.err # "" THEN JsDecodeError(n, <<>>, code.err)
        ELSE stringLoop(move(n, 1), Append(str, FmtC(code.val)), FALSE, FALSE)
      hexadecimal(codeStr) ==
        IF codeStr.panic THEN JsDecodePanic(m)
        ELSE charcode(codeStr.m, ParseUint(codeStr.ret))
      switch(symbol) ==
        IF hex THEN hexadecimal(sliceCurrent(m, 4, TRUE))
        ELSE IF screen THEN
          IF symbol = Ord["u"] THEN
            IF m.Offset < 4 THEN JsDecodeError(m, <<>>, "Unexpected")
            ELSE stringLoop(move(m, 1), str, FALSE, TRUE)
          ELSE stringLoop(move(m, 1), str \o JsUnescape(symbol), FALSE, FALSE)
        ELSE IF symbol = Ord["\""] THEN JsDecoded(move(m, 1), str)
        ELSE IF symbol = Ord["\\"] THEN stringLoop(move(m, 1), str, TRUE, FALSE)
        ELSE stringLoop(move(m, 1), Append(str, symbol), FALSE, FALSE)
  IN IF isComplete(m) THEN JsDecoded(m, str)
     ELSE IF OutOfRange(m) THEN JsDecodePanic(m)
     ELSE switch(m.Data[m.Index + 1])

\* Parser.string: the first rune is skipped, whatever it is.
string(m) == stringLoop(move(m, 1), <<>>, FALSE, FALSE)

RECURSIVE numberLoop(_, _)
numberLoop(m, str) ==
  IF isComplete(m) THEN [m |-> m, str |-> str, panic |-> FALSE]
  ELSE IF OutOfRange(m) THEN [m |-> m, str |-> str, panic |-> TRUE]
  ELSE IF NumberBody(m.Data[m.Index + 1])
    THEN numberLoop(move(m, 1), Append(str, m.Data[m.Index + 1]))
  ELSE [m |-> m, str |-> str, panic |-> FALSE]

number(m) ==
  LET parsed(n, f) ==
        IF f.err # "" THEN JsDecodeError(n, Normal(FALSE, 0, 0), f.err)
        ELSE JsDecoded(n, f.f)
      scanned(l) ==
        IF l.panic THEN JsDecodePanic(l.m) ELSE parsed(l.m, ParseFloat(l.str))
  IN scanned(numberLoop(m, <<>>))

\* value(): skip whitespace, look at the token, dispatch.
value(m) ==
  LET decoded(d, val) ==
        IF d.panic THEN Panic(d.m)
        ELSE IF d.err # "" THEN FailWith(d.m, d.err, val)
        ELSE Return(d.m, val)
      stringValue(d) == decoded(d, String(d.val))
      numberValue(d) == decoded(d, Number(d.val))
      switch(n, token) ==
        IF token.panic THEN Panic(n)
        ELSE IF token.err # "" THEN Fail(n, token.err)
        ELSE IF token.Type = "OBJECT_OPEN" THEN CallToReturn(n, "object")
        ELSE IF token.Type = "ARRAY_OPEN" THEN CallToReturn(n, "array")
        ELSE IF token.Type = "STRING" THEN stringValue(string(n))
        ELSE IF token.Type = "NUMBER" THEN numberValue(number(n))
        ELSE IF token.Type = "NULL" THEN Return(move(n, token.Length), Null)
        ELSE IF token.Type = "FALSE" THEN Return(move(n, token.Length), Bool(FALSE))
        ELSE IF token.Type = "TRUE" THEN Return(move(n, token.Length), Bool(TRUE))
        ELSE Fail(n, "Could not parse token")
      skipped(w) == IF w.panic THEN Panic(w.m) ELSE switch(w.m, getToken(w.m))
  IN skipped(skipWhitespace(m))

\* object() up to its loop: skip the first rune, make the map.
objectEnter(m) ==
  SetTop(move(m, 1), [Frame("object", "loop") EXCEPT !.obj = EmptyMap])

\* One iteration of object()'s loop, up to the call of value().  Any token
\* that is neither '}' nor ',' is taken as the start of a key.
objectLoop(m) ==
  LET call(key, w) ==
        IF w.panic THEN Panic(w.m)
        ELSE Call(SetTop(w.m, [Top(w.m) EXCEPT !.stage = "call", !.key = key.val]),
                  "value")
      separator(key, n, colon) ==
        IF colon.panic THEN Panic(n)
        ELSE IF colon.err # "" THEN Fail(n, colon.err)
        ELSE IF colon.Type # "COLON" THEN Fail(n, "Invalid JSON")
        ELSE call(key, skipWhitespace(move(n, 1)))
      afterKey(key, w) ==
        IF w.panic THEN Panic(w.m) ELSE separator(key, w.m, getToken(w.m))
      member(key) ==
        IF key.panic THEN Panic(key.m)
        ELSE IF key.err # "" THEN Fail(key.m, key.err)
        ELSE afterKey(key, skipWhitespace(key.m))
      switch(n, token) ==
        IF token.panic THEN Panic(n)
        ELSE IF token.err # "" THEN Fail(n, token.err)
        ELSE IF token.Type = "OBJECT_CLOSE"
          THEN Return(move(n, 1), Object(Top(n).obj))
        ELSE IF token.Type = "COMMA" THEN move(n, 1)
        ELSE member(string(n))
      skipped(w) == IF w.panic THEN Panic(w.m) ELSE switch(w.m, getToken(w.m))
  IN skipped(skipWhitespace(m))

\* The iteration after value() has returned: obj[key] = value
objectStore(m) ==
  [SetTop(m, [Top(m) EXCEPT !.stage = "loop", !.key = <<>>,
                            !.obj = MapPut(@, Top(m).key, m.ret)])
     EXCEPT !.ret = Nil]

arrayEnter(m) ==
  SetTop(move(m, 1), [Frame("array", "loop") EXCEPT !.array = <<>>])

\* One iteration of array()'s loop, up to the call of value().
arrayLoop(m) ==
  LET switch(n, token) ==
        IF token.panic THEN Panic(n)
        ELSE IF token.err # "" THEN Fail(n, token.err)
        ELSE IF token.Type = "ARRAY_CLOSE"
          THEN Return(move(n, 1), Array(Top(n).array))
        ELSE IF token.Type = "COMMA" THEN move(n, 1)
        ELSE Call(SetTop(n, [Top(n) EXCEPT !.stage = "call"]), "value")
      skipped(w) == IF w.panic THEN Panic(w.m) ELSE switch(w.m, getToken(w.m))
  IN skipped(skipWhitespace(m))

\* The iteration after value() has returned: array = append(array, value)
arrayAppend(m) ==
  [SetTop(m, [Top(m) EXCEPT !.stage = "loop", !.array = Append(@, m.ret)])
     EXCEPT !.ret = Nil]

(***************************************************************************)
(* The step a running state takes next, and a whole run.                   *)
(***************************************************************************)
Step(m) ==
  LET fn == Top(m).fn
      stage == Top(m).stage
  IN CASE fn = "Parse" /\ stage = "enter" -> Parse(m)
       [] fn = "Parse" /\ stage = "return" -> ReturnResult(m)
       [] fn = "scanValue" /\ stage = "enter" -> scanValue(m)
       [] fn = "scanValue" /\ stage = "return" -> ReturnResult(m)
       [] fn = "scanArray" /\ stage = "enter" -> scanArrayEnter(m)
       [] fn = "scanArray" /\ stage = "loop" -> scanArrayLoop(m)
       [] fn = "scanArray" /\ stage = "call" -> scanArrayAppend(m)
       [] fn = "scanObject" /\ stage = "enter" -> scanObjectEnter(m)
       [] fn = "scanObject" /\ stage = "loop" -> scanObjectLoop(m)
       [] fn = "scanObject" /\ stage = "call" -> scanObjectStore(m)
       [] fn = "value" /\ stage = "enter" -> value(m)
       [] fn = "value" /\ stage = "return" -> ReturnResult(m)
       [] fn = "array" /\ stage = "enter" -> arrayEnter(m)
       [] fn = "array" /\ stage = "loop" -> arrayLoop(m)
       [] fn = "array" /\ stage = "call" -> arrayAppend(m)
       [] fn = "object" /\ stage = "enter" -> objectEnter(m)
       [] fn = "object" /\ stage = "loop" -> objectLoop(m)
       [] fn = "object" /\ stage = "call" -> objectStore(m)

\* The state in which the run from m ends, or the state from which it never
\* moves again (a loop that repeats itself without changing anything).
RECURSIVE Run(_)
Run(m) ==
  LET after(n) == IF n = m THEN m ELSE Run(n)
  IN IF m.outcome # "running" THEN m ELSE after(Step(m))

(***************************************************************************)
(* The inputs of the model: families of documents, each a set of cases     *)
(* [doc |-> the text, want |-> the value JSON gives that text].  The       *)
(* values wanted are written down from the JSON grammar, not computed by   *)
(* the operators above.                                                    *)
(***************************************************************************)
MaxLen == 3
MaxElems == 2
MaxMembers == 3
MaxUnits == 2
MaxWs == 1

SeqsUpTo(S, n) == UNION { [1..k -> S] : k \in 0..n }

Case(doc, want) == [doc |-> doc, want |-> want]

Quoted(s) == <<Ord["\""]>> \o s \o <<Ord["\""]>>

\* The texts of the cases cs, joined by commas.
RECURSIVE JoinDocs(_, _)
JoinDocs(cs, i) ==
  IF i > Len(cs) THEN <<>>
  ELSE (IF i > 1 THEN <<Ord[","]>> ELSE <<>>) \o cs[i].doc \o JoinDocs(cs, i + 1)

ArrayCase(cs) ==
  Case(<<Ord["["]>> \o JoinDocs(cs, 1) \o <<Ord["]"]>>,
       Array([i \in 1..Len(cs) |-> cs[i].want]))

\* A member is <<key, value>>: two cases, the key's being a string.
MemberCase(mb) == Case(mb[1].doc \o <<Ord[":"]>> \o mb[2].doc, mb[2].want)

\* The object with the members mbs, in order: each key is bound to the value
\* of its last occurrence.
ObjectCase(mbs) ==
  LET keys == { mbs[i][1].want.s : i \in 1..Len(mbs) }
      last(k) == CHOOSE i \in 1..Len(mbs) :
                   /\ mbs[i][1].want.s = k
                   /\ \A j \in (i + 1)..Len(mbs) : mbs[j][1].want.s # k
  IN Case(<<Ord["{"]>> \o JoinDocs([i \in 1..Len(mbs) |-> MemberCase(mbs[i])], 1)
            \o <<Ord["}"]>>,
          Object([k \in keys |-> mbs[last(k)][2].want]))

Dec(neg, m, e) == [neg |-> neg, m |-> m, e |-> e]

NumberCase(names, neg, m, e) == Case(Str(names), Number(Dec(neg, m, e)))

StringCase(s) == Case(Quoted(s), String(s))

KeyA == StringCase(Str(<<"a">>))
KeyB == StringCase(Str(<<"b">>))

One == NumberCase(<<"1">>, FALSE, 1, 0)
Two == NumberCase(<<"2">>, FALSE, 2, 0)

\* Scalars of every kind.
Scalars ==
  { NumberCase(<<"0">>, FALSE, 0, 0),
    NumberCase(<<"-", "1">>, TRUE, 1, 0),
    NumberCase(<<"1", ".", "5">>, FALSE, 15, -1),
    NumberCase(<<"1", "e", "1">>, FALSE, 1, 1),
    StringCase(Str(<<"a">>)),
    StringCase(<<>>),
    Case(Str(<<"t", "r", "u", "e">>), Bool(TRUE)),
    Case(Str(<<"f", "a", "l", "s", "e">>), Bool(FALSE)),
    Case(Str(<<"n", "u", "l", "l">>), Null) }

DistinctKeys(mbs) ==
  \A i, j \in 1..Len(mbs) : i # j => mbs[i][1] # mbs[j][1]

\* Valid JSON texts: scalars, arrays and objects of scalars, and arrays and
\* objects holding one array or object.
FlatArrays == { ArrayCase(cs) : cs \in SeqsUpTo(Scalars, MaxElems) }

FlatObjects ==
  { ObjectCase(mbs) :
      mbs \in { x \in SeqsUpTo({KeyA, KeyB} \X Scalars, MaxElems) : DistinctKeys(x) } }

SmallContainers ==
  { c \in FlatArrays \cup FlatObjects :
      \/ (c.want.t = "array" /\ Len(c.want.a) <= 1)
      \/ (c.want.t = "object" /\ Cardinality(DOMAIN c.want.o) <= 1) }

JsonCases ==
  Scalars \cup FlatArrays \cup FlatObjects
    \cup { ArrayCase(<<c>>) : c \in SmallContainers }
    \cup { ObjectCase(<<<<KeyA, c>>>>) : c \in SmallContainers }

\* Every text over a small alphabet, up to a length.
ShortAlphabet ==
  { Ord[c] : c \in {"{", "}", "[", "]", ",", "\"", "\\", "u", "1", "a"} }

ShortDocs == SeqsUpTo(ShortAlphabet, MaxLen)

\* Every prefix of some documents: inputs that end inside an array, an
\* object, a string, an escape.
PrefixBase ==
  { Str(<<"[", "1", ",", "2", ",", "3", "]">>),
    Str(<<"{", "\"", "a", "\"", ":", "[", "\"", "\\", "u", "1", "2", "a", "b",
           "\"", "]", ",", "\"", "b", "\"", ":", "{", "}", "}">>),
    Str(<<"\"", "\\", "u", "1", "2", "a", "b", "\"">>),
    Str(<<"[", "t", "r", "u", "e", ",", "sp", "n", "u", "l", "l", "]">>) }

PrefixDocs == UNION { { SubSeq(d, 1, n) : n \in 0..Len(d) } : d \in PrefixBase }

\* A document as the only element of an array, as the value of the member
\* "a" of an object, and a string literal as the key of an object's member.
InArray(doc) == <<Ord["["]>> \o doc \o <<Ord["]"]>>

InObject(doc) == Str(<<"{", "\"", "a", "\"", ":">>) \o doc \o <<Ord["}"]>>

AsKey(literal) == <<Ord["{"]>> \o literal \o Str(<<":", "1", "}">>)

\* String literals whose \u is followed by fewer than four code points.
ShortEscapeLiterals ==
  { Quoted(Str(<<"\\", "u">>) \o SubSeq(Str(<<"1", "2", "3">>), 1, k)) : k \in 0..3 }

ShortEscapeDocs ==
  UNION { { InArray(l), InObject(l), AsKey(l) } : l \in ShortEscapeLiterals }

\* Objects that repeat a key, alone and nested in an array, in an object, and
\* in an object that repeats the key of the nested one.
RepeatsKey(mbs) ==
  \E i, j \in 1..Len(mbs) : i # j /\ mbs[i][1] = mbs[j][1]

RepeatedKeyObjects ==
  { ObjectCase(mbs) :
      mbs \in { x \in SeqsUpTo({KeyA, KeyB} \X {One, Two}, MaxMembers) :
                  RepeatsKey(x) } }

DupCases ==
  RepeatedKeyObjects
    \cup { ArrayCase(<<c>>) : c \in RepeatedKeyObjects }
    \cup { ObjectCase(<<<<KeyA, c>>>>) : c \in RepeatedKeyObjects }
    \cup { ObjectCase(<<<<KeyB, One>>, <<KeyB, c>>>>) : c \in RepeatedKeyObjects }

\* The pieces of a string literal: the text of the piece, the runes JSON
\* gives it (want), and the runes package js keeps for it (kept).
Unit(names, want, kept) == [doc |-> Str(names), want |-> want, kept |-> kept]

EscapeUnits ==
  { Unit(<<"a">>, <<97>>, <<97>>),
    Unit(<<"\\", "b">>, <<8>>, <<92, 98>>),
    Unit(<<"\\", "f">>, <<12>>, <<92, 102>>),
    Unit(<<"\\", "n">>, <<10>>, <<92, 110>>),
    Unit(<<"\\", "r">>, <<13>>, <<92, 114>>),
    Unit(<<"\\", "t">>, <<9>>, <<92, 116>>),
    Unit(<<"\\", "\"">>, <<34>>, <<34>>),
    Unit(<<"\\", "\\">>, <<92>>, <<92>>),
    Unit(<<"\\", "/">>, <<47>>, <<47>>) }

RECURSIVE JoinUnits(_, _)
JoinUnits(us, i) ==
  IF i > Len(us) THEN Unit(<<>>, <<>>, <<>>)
  ELSE [doc |-> us[i].doc \o JoinUnits(us, i + 1).doc,
        want |-> us[i].want \o JoinUnits(us, i + 1).want,
        kept |-> us[i].kept \o JoinUnits(us, i + 1).kept]

\* The literal of the tests: "a\b\r\t\n\f"
TestEscapes ==
  [doc |-> Str(<<"a", "\\", "b", "\\", "r", "\\", "t", "\\", "n", "\\", "f">>),
   want |-> <<97, 8, 13, 9, 10, 12>>,
   kept |-> <<97, 92, 98, 92, 114, 92, 116, 92, 110, 92, 102>>]

EscapeStrings ==
  { JoinUnits(us, 1) : us \in SeqsUpTo(EscapeUnits, MaxUnits) } \cup {TestEscapes}

\* Each string as the element of an array and as the value of a member (with
\* a space after the colon, as in the tests).
EscapeInArray(u) ==
  [doc |-> InArray(Quoted(u.doc)),
   want |-> Array(<<String(u.want)>>),
   kept |-> Array(<<String(u.kept)>>)]

EscapeInObject(u) ==
  [doc |-> Str(<<"{", "\"", "a", "\"", ":", "sp">>) \o Quoted(u.doc) \o <<Ord["}"]>>,
   want |-> Object([k \in {<<97>>} |-> String(u.want)]),
   kept |-> Object([k \in {<<97>>} |-> String(u.kept)])]

EscapeCases ==
  { EscapeInArray(u) : u \in EscapeStrings }
    \cup { EscapeInObject(u) : u \in EscapeStrings }

\* \uXXXX escapes: hexadecimal digits with their values, in both cases of
\* the letters; the escape as a string value and as a key.
Hex(name, val) == [doc |-> Ord[name], val |-> val]

HexFirst == { Hex("0", 0), Hex("2", 2), Hex("d", 13), Hex("D", 13) }
HexSecond == { Hex("0", 0), Hex("8", 8), Hex("b", 11), Hex("B", 11) }
HexThird == { Hex("0", 0), Hex("f", 15), Hex("F", 15) }
HexFourth == { Hex("1", 1), Hex("9", 9), Hex("f", 15), Hex("F", 15) }

UnicodeEscapes ==
  { [doc |-> Str(<<"\\", "u">>) \o <<h[1].doc, h[2].doc, h[3].doc, h[4].doc>>,
     code |-> h[1].val * 4096 + h[2].val * 256 + h[3].val * 16 + h[4].val] :
      h \in HexFirst \X HexSecond \X HexThird \X HexFourth }

UnicodeAsValue(u) ==
  [doc |-> InArray(Quoted(u.doc)), code |-> u.code, key |-> FALSE]

UnicodeAsKey(u) ==
  [doc |-> AsKey(Quoted(u.doc)), code |-> u.code, key |-> TRUE]

UnicodeCases ==
  { UnicodeAsValue(u) : u \in UnicodeEscapes }
    \cup { UnicodeAsKey(u) : u \in UnicodeEscapes }

\* The value a \uXXXX document denotes when the escape decodes to char.
UnicodeValue(c, char) ==
  IF c.key
    THEN Object([k \in {<<char>>} |-> One.want])
    ELSE Array(<<String(<<char>>)>>)

\* U+D800..U+DFFF, the surrogate halves, are no characters of their own.
IsSurrogate(code) == code >= 55296 /\ code <= 57343

\* Numbers with a digit directly after a leading zero, where a value may be.
LeadingZeroNumbers ==
  { sign \o <<Ord["0"], Ord[d]>> :
      sign \in { <<>>, <<Ord["-"]>> }, d \in {"0", "1", "9"} }

LeadingZeroDocs ==
  UNION { { InArray(n),
            InObject(n),
            InArray(Str(<<"1", ",">>) \o n),
            InObject(InArray(n)) } : n \in LeadingZeroNumbers }

\* Documents as their tokens, to put whitespace between two of them.  The
\* last three are no JSON: an object without a colon, a string that a line
\* feed ends (the tokens are those of package parser's Scanner), and an
\* object whose keys have no opening quote (the tokens are those package
\* js's getToken sees).
WsBase ==
  { << <<"[">>, <<"]">> >>,
    << <<"{">>, <<"\"", "a", "\"">>, <<":">>, <<"[">>, <<"1">>, <<",">>,
       <<"t", "r", "u", "e">>, <<"]">>, <<",">>, <<"\"", "b", "\"">>, <<":">>,
       <<"n", "u", "l", "l">>, <<"}">> >>,
    << <<"[">>, <<"\"", "a", "\"">>, <<",">>, <<"{">>, <<"}">>, <<"]">> >>,
    << <<"{">>, <<"\"", "a", "\"">>, <<"1">>, <<"}">> >>,
    << <<"[">>, <<"\"", "a">>, <<"lf">>, <<"]">> >>,
    << <<"{">>, <<"1">>, <<"\"">>, <<":">>, <<"1">>, <<",">>, <<"2">>, <<"\"">>,
       <<":">>, <<"3">>, <<"}">> >> }

WsRunes == { Ord["sp"], Ord["tab"], Ord["cr"], Ord["lf"] }

WsRuns == SeqsUpTo(WsRunes, MaxWs) \ { <<>> }

\* The tokens joined, with the run ws after every token whose index is in
\* gaps.
RECURSIVE Spaced(_, _, _, _)
Spaced(tokens, i, gaps, ws) ==
  IF i > Len(tokens) THEN <<>>
  ELSE Str(tokens[i]) \o (IF i \in gaps THEN ws ELSE <<>>)
         \o Spaced(tokens, i + 1, gaps, ws)

\* Whitespace between two tokens: in one gap, or in every gap.
GapSets(tokens) ==
  { {g} : g \in 1..(Len(tokens) - 1) } \cup { 1..(Len(tokens) - 1) }

WsCases ==
  UNION { { [doc |-> Spaced(t, 1, gaps, ws), base |-> Spaced(t, 1, {}, <<>>)] :
              gaps \in GapSets(t), ws \in WsRuns } : t \in WsBase }

\* Numbers whose exponent part directly follows the integer part, where a
\* value may be: the only element of an array, one of two elements, and the
\* value of a member.
ExponentNumbers ==
  { NumberCase(<<"1", "e", "1", "0">>, FALSE, 1, 10),
    NumberCase(<<"1", "E", "-", "1", "0">>, FALSE, 1, -10),
    NumberCase(<<"2", "E", "+", "3">>, FALSE, 2, 3),
    NumberCase(<<"-", "1", "e", "2">>, TRUE, 1, 2),
    NumberCase(<<"1", "2", "e", "0">>, FALSE, 12, 0) }

ExponentCases ==
  { ArrayCase(<<n>>) : n \in ExponentNumbers }
    \cup { ArrayCase(<<One, n>>) : n \in ExponentNumbers }
    \cup { ObjectCase(<<<<KeyA, n>>>>) : n \in ExponentNumbers }

\* Strings without their closing quote: a control character (a line feed, a
\* tab, a carriage return, U+0001) or the end of input comes first.  The
\* string is an element, a member's value, or a key.
Unterminated == { Str(<<"\"", "a">>), Str(<<"\"">>), Str(<<"\"", "\\", "n">>) }

StringEnders == { <<Ord["lf"]>>, <<Ord["tab"]>>, <<Ord["cr"]>>, <<1>> }

UnterminatedDocs ==
  UNION { { <<Ord["["]>> \o s \o e \o <<Ord["]"]>>,
            Str(<<"[", "1", ",">>) \o s \o e \o <<Ord["]"]>>,
            Str(<<"{", "\"", "a", "\"", ":">>) \o s \o e \o <<Ord["}"]>>,
            <<Ord["{"]>> \o s \o e \o Str(<<":", "1", "}">>),
            <<Ord["{"]>> \o s,
            Str(<<"{", "\"", "a", "\"", ":">>) \o s } :
          s \in Unterminated, e \in StringEnders }

\* Arrays and objects nested in each other, one in one, to every depth up to
\* MaxNest: kinds[i] is what is nested at depth i, the innermost being empty.
MaxNest == 5

RECURSIVE Nested(_, _)
Nested(kinds, i) ==
  IF i > Len(kinds) THEN <<>>
  ELSE IF kinds[i] = "array" THEN InArray(Nested(kinds, i + 1))
  ELSE IF i = Len(kinds) THEN Str(<<"{", "}">>)
  ELSE InObject(Nested(kinds, i + 1))

NestedCases ==
  { [doc |-> Nested(kinds, 1), depth |-> Len(kinds)] :
      kinds \in SeqsUpTo({"array", "object"}, MaxNest) \ { <<>> } }

\* Two elements, or two members, with no comma between them: with a space
\* instead, and with nothing at all where the tokens allow it.
NoCommaGaps == { <<Ord["sp"]>>, <<Ord["lf"]>>, <<>> }

NoCommaElements ==
  { <<One.doc, Quoted(Str(<<"a">>))>>,
    <<Quoted(Str(<<"a">>)), Quoted(Str(<<"b">>))>>,
    <<Str(<<"t", "r", "u", "e">>), Two.doc>>,
    <<One.doc, Str(<<"[", "2", "]">>)>>,
    <<Str(<<"[", "]">>), Str(<<"{", "}">>)>>,
    <<Str(<<"n", "u", "l", "l">>), Str(<<"[", "]">>)>> }

MissingCommaDocs ==
  { Str(<<"[", "1", "sp", "2", "]">>),
    Str(<<"[", "1", "sp", "2", "sp", "3", "]">>),
    Str(<<"[", "1", ",", "2", "sp", "3", "]">>) }
    \cup { InArray(e[1] \o g \o e[2]) : e \in NoCommaElements, g \in NoCommaGaps }
    \cup { <<Ord["{"]>> \o MemberCase(<<KeyA, v>>).doc \o g
             \o MemberCase(<<KeyB, Two>>).doc \o <<Ord["}"]>> :
           v \in { One, StringCase(Str(<<"x">>)), ArrayCase(<<>>) },
           g \in NoCommaGaps }

\* Arrays with a token that neither starts a value nor is ] or a comma, as
\* the first thing after [ and after an element: a colon, a closing brace,
\* an illegal token (an unknown word, a character outside the grammar).
StrayTokens ==
  { Str(<<":">>), Str(<<"}">>), Str(<<"x">>), Str(<<"n", "u", "l">>), Str(<<"+">>) }

StrayTokenDocs ==
  UNION { { InArray(t),
            InArray(<<Ord["sp"]>> \o t),
            InArray(t \o One.doc),
            InArray(One.doc \o t),
            InArray(Str(<<"1", ",">>) \o t \o Str(<<",", "2">>)),
            InObject(InArray(t)) } : t \in StrayTokens }

\* Arrays that the end of input follows: directly after [, and after
\* whitespace, an element, a comma.
ArrayThenEof ==
  { Str(<<"[">>), Str(<<"[", "sp">>), Str(<<"[", "1">>), Str(<<"[", "1", ",">>),
    Str(<<"[", "[", "]">>), Str(<<"{", "\"", "a", "\"", ":", "[">>) }

\* Numbers at the edges of scanNumber's state machine: a sign followed by no
\* digit (a bracket, a comma, a letter, a point, a second sign, the end of
\* input), and numbers that a point, an exponent mark or a sign ends.
NumberEdges ==
  { Str(<<"-">>), Str(<<"-", "x">>), Str(<<"-", ".", "5">>), Str(<<"-", "-", "1">>),
    Str(<<"-", "1">>), Str(<<"-", "0", ".", "5">>), Str(<<"1", ".">>),
    Str(<<"1", ".", "e", "5">>), Str(<<"1", ".", "5", "e">>),
    Str(<<"1", ".", "5", "e", "+">>), Str(<<"1", ".", "5", "e", "-", "2">>),
    Str(<<"1", ".", "5", "e", "2", "x">>), Str(<<"1", "2", "x">>),
    Str(<<"0", ".", "0", "1">>) }

NumberEdgeDocs ==
  NumberEdges
    \cup { InArray(n) : n \in NumberEdges }
    \cup { <<Ord["["]>> \o n : n \in NumberEdges }
    \cup { InArray(n \o Str(<<",", "1">>)) : n \in NumberEdges }
    \cup { InObject(n) : n \in NumberEdges }

\* Arrays that begin with a string literal: a quote and every text up to
\* MaxLen over quotes, backslashes, escape letters, a letter that is no
\* escape, a digit and a line feed, then ]; and the literals whose \u is
\* short of its four digits.
LayerAlphabet == { Ord[c] : c \in {"\"", "\\", "u", "n", "x", "1", "lf"} }

StringLayerDocs ==
  { Str(<<"[", "\"">>) \o t \o <<Ord["]"]>> : t \in SeqsUpTo(LayerAlphabet, MaxLen) }
    \cup { InArray(l) : l \in ShortEscapeLiterals }

\* Documents with runs of two and three whitespace runes between two tokens:
\* in one gap, or in every gap.
WsLongRuns ==
  { Str(<<"sp", "sp">>), Str(<<"sp", "lf">>), Str(<<"tab", "cr", "sp">>) }

WsRunDocs ==
  UNION { { Spaced(t, 1, gaps, ws) : gaps \in GapSets(t), ws \in WsLongRuns } :
          t \in WsBase }

\* Documents with the rune U+0000, the value of eof, in a run of whitespace,
\* after one, before one and on its own.
NulDocs ==
  { Str(<<"[", "sp", "nul", "sp", "]">>),
    Str(<<"[", "sp", "nul", "]">>),
    Str(<<"[", "nul", "sp", "]">>),
    Str(<<"[", "nul", "]">>),
    Str(<<"[", "1", "sp", "nul", "lf", ",", "2", "]">>),
    Str(<<"{", "\"", "a", "\"", "sp", "nul", "sp", ":", "1", "}">>),
    Str(<<"{", "\"", "a", "\"", "sp", "nul", ":", "1", "}">>),
    Str(<<"{", "\"", "a", "\"", ":", "sp", "nul", "tab", "1", "}">>) }

\* Documents that ParseString parses, followed by more text: a letter, a
\* closing bracket or brace, a comma and a value, a quote, a sign, a line
\* feed, a second document after a space.
TrailingBases ==
  { Str(<<"{", "}">>), Str(<<"[", "]">>), Str(<<"[", "1", "]">>),
    Str(<<"[", "\"", "a", "\"", "]">>), Str(<<"[", "[", "]", "]">>),
    Str(<<"{", "\"", "a", "\"", ":", "1", "}">>),
    Str(<<"{", "\"", "a", "\"", ":", "{", "}", "}">>),
    Str(<<"[", "1", "sp", "2", "]">>) }

Trailers ==
  { Str(<<"x">>), Str(<<"]">>), Str(<<"}">>), Str(<<",", "1">>), Str(<<"\"">>),
    Str(<<"-">>), Str(<<"lf">>), Str(<<"sp", "{", "}">>) }

TrailingCases ==
  { [doc |-> s \o t, base |-> s] : s \in TrailingBases, t \in Trailers }

Docs(cases) == { c.doc : c \in cases }

Inputs ==
  Docs(JsonCases) \cup ShortDocs \cup PrefixDocs \cup ShortEscapeDocs
    \cup Docs(DupCases) \cup Docs(EscapeCases) \cup Docs(UnicodeCases)
    \cup LeadingZeroDocs \cup Docs(WsCases) \cup { c.base : c \in WsCases }
    \cup Docs(TrailingCases)
    \cup WsRunDocs
    \cup StringLayerDocs
    \cup NumberEdgeDocs
    \cup StrayTokenDocs \cup ArrayThenEof
    \cup MissingCommaDocs
    \cup Docs(NestedCases)
    \cup UnterminatedDocs
    \cup Docs(ExponentNumbers) \cup Docs(ExponentCases)
    \cup NulDocs

\* The case of a family a document belongs to.
CaseOf(cases, doc) == CHOOSE c \in cases : c.doc = doc

(***************************************************************************)
(* The state machine: one run of ParseString (package parser) or of Parse  *)
(* (package js) on one input.                                              *)
(***************************************************************************)
VARIABLES pkg, input, pos, buf, calls, Index, Offset, Data, Cap, stack, ret,
          outcome, err

vars ==
  <<pkg, input, pos, buf, calls, Index, Offset, Data, Cap, stack, ret, outcome,
    err>>

\* The current state as a record, and the step to a state given as a record.
Cur ==
  [pkg |-> pkg, input |-> input, pos |-> pos, buf |-> buf, calls |-> calls,
   Index |-> Index, Offset |-> Offset, Data |-> Data, Cap |-> Cap,
   stack |-> stack, ret |-> ret, outcome |-> outcome, err |-> err]

IsState(m) ==
  /\ pkg = m.pkg /\ input = m.input /\ pos = m.pos /\ buf = m.buf
  /\ calls = m.calls
  /\ Index = m.Index /\ Offset = m.Offset /\ Data = m.Data /\ Cap = m.Cap
  /\ stack = m.stack /\ ret = m.ret /\ outcome = m.outcome /\ err = m.err

Becomes(m) ==
  /\ pkg' = m.pkg /\ input' = m.input /\ pos' = m.pos /\ buf' = m.buf
  /\ calls' = m.calls
  /\ Index' = m.Index /\ Offset' = m.Offset /\ Data' = m.Data /\ Cap' = m.Cap
  /\ stack' = m.stack /\ ret' = m.ret /\ outcome' = m.outcome /\ err' = m.err

\* ParseString(str) of package parser, or Parse(input) of package js; the
\* runtime gives []rune(input) its length as capacity, or more.
Init ==
  \E str \in Inputs :
    \/ IsState(NewParserP(str))
    \/ \E spare \in 0..1 : IsState(NewParserJ(str, Len(str) + spare))

At(fn, stage) ==
  /\ outcome = "running"
  /\ stack[Len(stack)].fn = fn
  /\ stack[Len(stack)].stage = stage

StepParse == At("Parse", "enter") /\ Becomes(Parse(Cur))
StepParseReturn == At("Parse", "return") /\ Becomes(ReturnResult(Cur))
StepScanValue == At("scanValue", "enter") /\ Becomes(scanValue(Cur))
StepScanValueReturn == At("scanValue", "return") /\ Becomes(ReturnResult(Cur))
StepScanArrayEnter == At("scanArray", "enter") /\ Becomes(scanArrayEnter(Cur))
StepScanArrayLoop == At("scanArray", "loop") /\ Becomes(scanArrayLoop(Cur))
StepScanArrayAppend == At("scanArray", "call") /\ Becomes(scanArrayAppend(Cur))
StepScanObjectEnter == At("scanObject", "enter") /\ Becomes(scanObjectEnter(Cur))
StepScanObjectLoop == At("scanObject", "loop") /\ Becomes(scanObjectLoop(Cur))
StepScanObjectStore == At("scanObject", "call") /\ Becomes(scanObjectStore(Cur))
StepValue == At("value", "enter") /\ Becomes(value(Cur))
StepValueReturn == At("value", "return") /\ Becomes(ReturnResult(Cur))
StepArrayEnter == At("array", "enter") /\ Becomes(arrayEnter(Cur))
StepArrayLoop == At("array", "loop") /\ Becomes(arrayLoop(Cur))
StepArrayAppend == At("array", "call") /\ Becomes(arrayAppend(Cur))
StepObjectEnter == At("object", "enter") /\ Becomes(objectEnter(Cur))
StepObjectLoop == At("object", "loop") /\ Becomes(objectLoop(Cur))
StepObjectStore == At("object", "call") /\ Becomes(objectStore(Cur))

Next ==
  \/ StepParse
  \/ StepParseReturn
  \/ StepScanValue
  \/ StepScanValueReturn
  \/ StepScanArrayEnter
  \/ StepScanArrayLoop
  \/ StepScanArrayAppend
  \/ StepScanObjectEnter
  \/ StepScanObjectLoop
  \/ StepScanObjectStore
  \/ StepValue
  \/ StepValueReturn
  \/ StepArrayEnter
  \/ StepArrayLoop
  \/ StepArrayAppend
  \/ StepObjectEnter
  \/ StepObjectLoop
  \/ StepObjectStore

Spec == Init /\ [][Next]_vars

(***************************************************************************)
(* The properties checked.  A run has ended when its outcome is "ok",      *)
(* "error" or "panic".                                                     *)
(***************************************************************************)
Ended == outcome # "running"

JsonDocs == Docs(JsonCases)
DupDocs == Docs(DupCases)
EscapeDocs == Docs(EscapeCases)
UnicodeDocs == Docs(UnicodeCases)
WsDocs == Docs(WsCases)

Zero == NumberCase(<<"0">>, FALSE, 0, 0)

\* C1: for every valid JSON text (an object, an array, a string, a number, a
\* boolean or null at the top level), ParseString of package parser returns
\* no error and the value the text denotes: {} an empty mapping, [] an empty
\* sequence, a scalar that scalar, nesting preserved.
C1_ValidJsonParses ==
  (pkg = "parser" /\ Ended /\ input \in JsonDocs)
    => (outcome = "ok" /\ ret = CaseOf(JsonCases, input).want)

\* ParseString("[1e1]") has returned the two numbers 1 and 1 and no error.
C1_ExponentReadAsTwoNumbers ==
  /\ pkg = "parser"
  /\ input = Str(<<"[", "1", "e", "1", "]">>)
  /\ outcome = "ok"
  /\ ret = Array(<<One.want, One.want>>)

\* Arrays that the end of input leaves open.
UnclosedArrays ==
  { SubSeq(Str(<<"[", "1", ",", "2", ",", "3", "]">>), 1, n) : n \in 1..6 }

\* C2: ParseString of package parser terminates on every input: every step
\* of a run that has not ended changes the state, so that no run repeats one
\* state forever; and a run on an array that is never closed, such as [1,2,
\* ends with an error.
C2_Terminates ==
  pkg = "parser" =>
    /\ (outcome = "running" => Step(Cur) # Cur)
    /\ (Ended /\ input \in UnclosedArrays => outcome = "error")

\* ParseString("[1,2,") is in scanArray's loop at the end of input, and the
\* next iteration leaves everything as it is.
C2_UnclosedArrayLoops ==
  /\ pkg = "parser"
  /\ input = Str(<<"[", "1", ",", "2", ",">>)
  /\ outcome = "running"
  /\ Step(Cur) = Cur

\* C3: in package parser a string value or key whose \u is followed by fewer
\* than four code points before the end of the token makes ParseString
\* return an error, and parseString never reads past the end of the token
\* (no run panics).
C3_ShortEscapeIsError ==
  pkg = "parser" =>
    /\ outcome # "panic"
    /\ (Ended /\ input \in ShortEscapeDocs => outcome = "error")

\* ParseString of ["\u12"] has ended in a run-time panic.
C3_ShortEscapePanics ==
  /\ pkg = "parser"
  /\ input = InArray(Quoted(Str(<<"\\", "u", "1", "2">>)))
  /\ outcome = "panic"

\* C4: Parse of package js never faults on an out-of-range access: on every
\* input, the empty one and those that end inside an object, an array, a
\* string or a \u escape included, it returns a value or an error.
C4_NoOutOfRange == pkg = "js" => outcome # "panic"

\* Parse("") of package js has ended in a run-time panic.
C4_EmptyInputPanics == pkg = "js" /\ input = <<>> /\ outcome = "panic"

\* C5: when an object repeats a key, the parsed mapping holds the key once,
\* bound to the value of its last occurrence; for two and more repetitions,
\* at the top level and nested, in both packages.
C5_LastKeyWins ==
  (Ended /\ input \in DupDocs)
    => (outcome = "ok" /\ ret = CaseOf(DupCases, input).want)

\* {"a":1,"a":2} has been parsed by package parser to the one key a, bound
\* to 2.
C5_RepeatedKeyParsed ==
  /\ pkg = "parser"
  /\ input = Str(<<"{", "\"", "a", "\"", ":", "1", ",", "\"", "a", "\"", ":",
                   "2", "}">>)
  /\ outcome = "ok"
  /\ ret = Object([k \in {<<97>>} |-> Two.want])

\* C6: package parser decodes each of \b \f \n \r \t to the control
\* character it names and each of \" \\ \/ to the character itself; the
\* literal "a\b\r\t\n\f" decodes to a and five control characters.
C6_EscapesDecoded ==
  (pkg = "parser" /\ Ended /\ input \in EscapeDocs)
    => (outcome = "ok" /\ ret = CaseOf(EscapeCases, input).want)

\* ["a\b\r\t\n\f"] has been parsed by package parser to six runes, none of
\* them a backslash.
C6_FiveControlCharacters ==
  /\ pkg = "parser"
  /\ input = EscapeInArray(TestEscapes).doc
  /\ outcome = "ok"
  /\ ret = Array(<<String(<<97, 8, 13, 9, 10, 12>>)>>)

\* C7: package js keeps each of \b \f \n \r \t as the two characters
\* backslash and letter, and replaces \" \\ \/ by the single character;
\* {"a": "a\b\r\t\n\f"} yields the string of 11 characters a\b\r\t\n\f.
C7_EscapesKept ==
  (pkg = "js" /\ Ended /\ input \in EscapeDocs)
    => (outcome = "ok" /\ ret = CaseOf(EscapeCases, input).kept)

\* {"a": "a\b\r\t\n\f"} has been parsed by package js to a string of 11
\* runes.
C7_ElevenCharacters ==
  /\ pkg = "js"
  /\ input = EscapeInObject(TestEscapes).doc
  /\ outcome = "ok"
  /\ ret.t = "object"
  /\ Len(ret.o[<<97>>].s) = 11

\* The start of a run of the package on a text, with spare capacity.
Start(package, str, spare) ==
  IF package = "parser" THEN NewParserP(str) ELSE NewParserJ(str, Len(str) + spare)

SameResult(a, b) == a.outcome = b.outcome /\ a.ret = b.ret

\* C8: in both packages, whitespace (space, tab, CR, LF) put between two
\* tokens of any input never changes the result: the same value, or still an
\* error.
C8_WhitespaceInsensitive ==
  (Ended /\ input \in WsDocs) =>
    \A c \in { x \in WsCases : x.doc = input } :
      SameResult(Cur, Run(Start(pkg, c.base, Cap - Len(Data))))

\* Parse of package js has given {1 ":1,2":3} two keys, where {1":1,2":3}
\* has one.
C8_WhitespaceChangesResult ==
  /\ pkg = "js"
  /\ input = Str(<<"{", "1", "sp", "\"", ":", "1", ",", "2", "\"", ":", "3", "}">>)
  /\ outcome = "ok"
  /\ DOMAIN ret.o = { <<>>, <<32>> }
  /\ Run(Start("js", Str(<<"{", "1", "\"", ":", "1", ",", "2", "\"", ":", "3",
                           "}">>), 0)).ret
       = Object([k \in { <<>> } |-> NumberCase(<<"3">>, FALSE, 3, 0).want])

\* C9, as the code has it: a \uXXXX escape of four hexadecimal digits
\* decodes to the one character whose code is the value of the digits,
\* whatever the case of the digits, in values and in keys, in both packages;
\* except that a value in U+D800..U+DFFF decodes to U+FFFD.
C9_UnicodeEscapeDecoded ==
  (Ended /\ input \in UnicodeDocs) =>
    /\ outcome = "ok"
    /\ \A c \in { x \in UnicodeCases : x.doc = input } :
         ret = UnicodeValue(c, IF IsSurrogate(c.code) THEN 65533 ELSE c.code)

\* C9 as stated: the escape always decodes to the character whose code is
\* the value of the digits.
C9_UnicodeEscapeIsItsValue ==
  (Ended /\ input \in UnicodeDocs) =>
    /\ outcome = "ok"
    /\ \A c \in { x \in UnicodeCases : x.doc = input } :
         ret = UnicodeValue(c, c.code)

\* ["\u20FF"] has been parsed to the one character U+20FF.
C9_UpperCaseDecoded ==
  /\ input = InArray(Quoted(Str(<<"\\", "u", "2", "0", "F", "F">>)))
  /\ outcome = "ok"
  /\ ret = Array(<<String(<<8447>>)>>)

\* C10: ParseString of package parser returns an error for every document
\* in which a digit directly follows a number's leading 0, as a member's
\* value and as an array's element.
C10_LeadingZeroRejected ==
  (pkg = "parser" /\ Ended /\ input \in LeadingZeroDocs) => outcome = "error"

\* ParseString("[01]") has returned the two numbers 0 and 1 and no error.
C10_LeadingZeroAccepted ==
  /\ pkg = "parser"
  /\ input = Str(<<"[", "0", "1", "]">>)
  /\ outcome = "ok"
  /\ ret = Array(<<Zero.want, One.want>>)

ExponentDocs == Docs(ExponentCases)

\* C11: in package parser a number whose exponent part directly follows the
\* integer part, such as 1e10 or 1E-10, is scanned as one NUMBER token
\* holding the whole literal and is parsed as the one number the literal
\* denotes: [1e10] yields a one-element array, {"a":1E-10} parses without
\* error.
C11_ExponentIsOneNumber ==
  /\ (pkg = "parser" /\ input \in Docs(ExponentNumbers))
       => Scan(input, 0).token = Token("NUMBER", input)
  /\ (pkg = "parser" /\ Ended /\ input \in ExponentDocs)
       => (outcome = "ok" /\ ret = CaseOf(ExponentCases, input).want)

\* ParseString("[1e10]") has returned the two numbers 1 and 10: the NUMBER
\* token of 1e10 is 1 alone.
C11_ExponentSplitsNumber ==
  /\ pkg = "parser"
  /\ input = Str(<<"[", "1", "e", "1", "0", "]">>)
  /\ outcome = "ok"
  /\ ret = Array(<<One.want, NumberCase(<<"1", "0">>, FALSE, 1, 1).want>>)
  /\ Scan(Str(<<"1", "e", "1", "0">>), 0).token = Token("NUMBER", Str(<<"1">>))

\* C12: when the input ends, or a control character (a raw line feed, a tab)
\* appears, before the closing quote of a string, ParseString of package
\* parser returns an error: it returns no value tree holding a string or a
\* key decoded from a string token without its closing quote.
C12_UnterminatedStringIsError ==
  (pkg = "parser" /\ Ended /\ input \in UnterminatedDocs) => outcome = "error"

\* ParseString of ["a followed by a line feed and ] has returned the array
\* of the string a and no error.
C12_UnterminatedStringParsed ==
  /\ pkg = "parser"
  /\ input = Str(<<"[", "\"", "a", "lf", "]">>)
  /\ outcome = "ok"
  /\ ret = Array(<<String(Str(<<"a">>))>>)

NestedDocs == Docs(NestedCases)

\* C13: the recursion of scanValue, scanObject and scanArray is bounded by a
\* maximum nesting depth: there is a limit (here one below MaxNest, the
\* deepest nesting of the inputs) such that the calls are never deeper than
\* nesting to the limit takes (two calls for each level: Parse or scanValue,
\* and scanArray or scanObject), and an input nested deeper than the limit
\* ends with an error.
C13_NestingIsBounded ==
  (pkg = "parser" /\ input \in NestedDocs) =>
    \E limit \in 1..(MaxNest - 1) :
      /\ Len(stack) <= 2 * limit
      /\ (Ended /\ CaseOf(NestedCases, input).depth > limit) => outcome = "error"

\* ParseString of MaxNest arrays nested in each other is 2 * MaxNest calls
\* deep (Parse, scanArray, then scanValue and scanArray for each array
\* inside), and goes on to return a value and no error.
C13_CallsAsDeepAsInput ==
  /\ pkg = "parser"
  /\ input = Nested([i \in 1..MaxNest |-> "array"], 1)
  /\ Len(stack) = 2 * MaxNest
  /\ Top(Cur).fn = "scanArray"
  /\ Run(Cur).outcome = "ok"

\* C14: ParseString of package parser returns a structural error when the
\* comma the grammar requires is missing: two array elements, or two object
\* members, that follow each other with no comma between them, as in [1 2]
\* or {"a":1 "b":2}, are rejected.
C14_MissingCommaIsError ==
  (pkg = "parser" /\ Ended /\ input \in MissingCommaDocs) => outcome = "error"

\* ParseString("[1 2]") has returned the array of 1 and 2 and no error.
C14_MissingCommaAccepted ==
  /\ pkg = "parser"
  /\ input = Str(<<"[", "1", "sp", "2", "]">>)
  /\ outcome = "ok"
  /\ ret = Array(<<One.want, Two.want>>)

\* C15: in scanArray, after the opening [, every token other than the start
\* of a value, the closing ] or a comma is a structural error: when the next
\* token that is no whitespace is COLON, CURLY_BRACE_CLOSE, ILLEGAL or EOF,
\* ParseString returns an error and no array.  Returning it, the run ends:
\* at the end of input the loop does not go on.
C15_StrayTokenIsError ==
  pkg = "parser" =>
    /\ (Ended /\ input \in StrayTokenDocs \cup ArrayThenEof) => outcome = "error"
    /\ (outcome = "running" /\ input \in ArrayThenEof) => Step(Cur) # Cur

\* ParseString("[:]") has returned the empty array and no error, having
\* scanned the colon.
C15_ColonDropped ==
  /\ pkg = "parser"
  /\ input = Str(<<"[", ":", "]">>)
  /\ outcome = "ok"
  /\ ret = Array(<<>>)
  /\ \E i \in 1..Len(calls) : calls[i].token = Token("COLON", Str(<<":">>))

\* C16: in the cursor of package js, Index + Offset = len(Data) in every
\* reachable state: after NewParser and after every move and slice that
\* value, object, array, string, number, getToken and skipWhitespace make,
\* on every input.
C16_CursorInvariant == pkg = "js" => Index + Offset = Len(Data)

\* Parse of package js has read ["\u20FF"] to its end, by moves and by the
\* slice of the four hexadecimal digits: the cursor is behind the last rune.
C16_CursorAtEnd ==
  /\ pkg = "js"
  /\ input = InArray(Quoted(Str(<<"\\", "u", "2", "0", "F", "F">>)))
  /\ outcome = "ok"
  /\ Index = Len(Data)
  /\ Offset = 0

\* Whether the i-th of the calls kept is a scan, an unscan.
IsScan(i) == calls[i].op = "scan"
IsUnscan(i) == calls[i].op = "unscan"

\* C17: Parser.scan and Parser.unscan give exactly one token of lookahead.
\* The scan that follows an unscan returns the token the scan before the
\* unscan returned and reads nothing from the Scanner (the reader stays
\* where it was); every other scan reads the Scanner, from where the call
\* before left the reader, and returns the token found there; and unscan is
\* never called twice without a scan in between, nor as the first call.
C17_OneTokenLookahead ==
  pkg = "parser" =>
    /\ buf.size = (IF calls # <<>> /\ IsUnscan(Len(calls)) THEN 1 ELSE 0)
    /\ Len(calls) < MaxCalls /\ calls # <<>> => IsScan(1) /\ calls[1].fresh
    /\ \A i \in 2..Len(calls) :
         /\ IsUnscan(i) =>
              /\ IsScan(i - 1)
              /\ calls[i - 1].token # NoToken
              /\ calls[i].pos = calls[i - 1].pos
         /\ IsScan(i) /\ IsUnscan(i - 1) =>
              /\ ~calls[i].fresh
              /\ calls[i].pos = calls[i - 1].pos
              /\ i > 2 => calls[i].token = calls[i - 2].token
         /\ IsScan(i) /\ IsScan(i - 1) =>
              /\ calls[i].fresh
              /\ calls[i].pos = Scan(input, calls[i - 1].pos).pos
              /\ calls[i].token = Scan(input, calls[i - 1].pos).token

\* ParseString("[1]") has returned: [ was scanned, pushed back, handed out
\* again without a read, and the scan after that read the token 1.
C17_PushedBackTokenScanned ==
  /\ pkg = "parser"
  /\ input = Str(<<"[", "1", "]">>)
  /\ Len(calls) >= 4
  /\ calls[1] = [op |-> "scan", token |-> Token("SQUARED_BRACE_OPEN", Str(<<"[">>)),
                 fresh |-> TRUE, pos |-> 1]
  /\ IsUnscan(2)
  /\ calls[3] = [op |-> "scan", token |-> Token("SQUARED_BRACE_OPEN", Str(<<"[">>)),
                 fresh |-> FALSE, pos |-> 1]
  /\ calls[4] = [op |-> "scan", token |-> Token("NUMBER", Str(<<"1">>)),
                 fresh |-> TRUE, pos |-> 2]

\* The runes of a number: digits, signs, the point and the exponent marks.
NumberRunes ==
  { Ord[c] : c \in {"0", "1", "2", "3", "4", "5", "6", "7", "8", "9", "-", "+",
                    ".", "e", "E"} }

\* C18: scanNumber stops at the first code point that does not extend the
\* state of the number and leaves it unconsumed, so that the text of every
\* NUMBER token is exactly the run of the input it matched: the token holds
\* only digits, -, +, ., e and E, and after a leading - only a digit is
\* taken into the token.
C18_NumberTokenIsMatchedRun ==
  pkg = "parser" =>
    \A i \in 1..Len(calls) :
      (IsScan(i) /\ calls[i].token.Type = "NUMBER") =>
        LET text == calls[i].token.Runes IN
        /\ \A k \in 1..Len(text) : text[k] \in NumberRunes
        /\ (Len(text) >= 2 /\ text[1] = Ord["-"]) => isDigit(text[2])
        /\ Len(text) <= calls[i].pos
        /\ text = SubSeq(input, calls[i].pos - Len(text) + 1, calls[i].pos)

\* ParseString("[-]") has scanned the NUMBER token -] and, the array never
\* closed for it, has returned the error of parseNumber.
C18_BracketInNumberToken ==
  /\ pkg = "parser"
  /\ input = Str(<<"[", "-", "]">>)
  /\ outcome = "error"
  /\ err = "could not parse number"
  /\ calls[Len(calls)] = [op |-> "scan", token |-> Token("NUMBER", Str(<<"-", "]">>)),
                          fresh |-> FALSE, pos |-> 3]

\* The errors of parseString.
DecodeErrors ==
  { "unexpected length of hex symbol", "could not parse hex charcode",
    "unexpected token after screen character" }

\* Whether parseString decodes the runes without error and without panic.
DecoderAccepts(runes) ==
  LET accepts(d) == ~d.panic /\ d.err = "" IN accepts(parseString(runes))

\* Whether the string layers agree on the text that begins at position at of
\* the input: scanString returns a token and parseString decodes its runes,
\* or scanString returns an error and parseString rejects what was read.
LayersAgree(in, at) ==
  LET agree(s) ==
        IF s.err = "" THEN DecoderAccepts(s.token.Runes)
        ELSE ~DecoderAccepts(SubSeq(in, at + 1, s.pos))
  IN agree(scanString(in, at))

\* C19: the two string validation layers of package parser agree exactly:
\* for every text that begins with a quote, scanString returns a STRING
\* token without error if and only if parseString decodes the token's text
\* without error and without fault; so no run of ParseString ends with an
\* error or a panic of parseString on a token the Scanner has returned.
C19_StringLayersAgree ==
  (pkg = "parser" /\ input \in StringLayerDocs) =>
    /\ LayersAgree(input, 1)
    /\ Ended => (outcome # "panic" /\ err \notin DecodeErrors)

\* ParseString of ["\u1"] has ended with parseString's error about the
\* length of the hex symbol, on the STRING token "\u1" that scanString
\* returned without error.
C19_ScannerAcceptsDecoderRejects ==
  /\ pkg = "parser"
  /\ input = InArray(Quoted(Str(<<"\\", "u", "1">>)))
  /\ outcome = "error"
  /\ err = "unexpected length of hex symbol"
  /\ calls[Len(calls)].token = Token("STRING", Quoted(Str(<<"\\", "u", "1">>)))
  /\ scanString(input, 1).err = ""

IsWhitespaceToken(i) == calls[i].token.Type = "WHITESPACE"

\* What scanIgnoreWhitespace returns is no WHITESPACE token.
SkipsWhitespace(g) == g.err = "" => g.token.Type # "WHITESPACE"

\* C20: scanIgnoreWhitespace never returns a WHITESPACE token, although it
\* skips at most one token: a WHITESPACE token holds the whole run of
\* whitespace (the rune after it is none), the token scanned after it is
\* never WHITESPACE, and no WHITESPACE token is pushed back with unscan; so
\* wherever a run stands, in every input, scanIgnoreWhitespace, called once
\* and called again, returns a token that is not WHITESPACE.
C20_WhitespaceSkipped ==
  pkg = "parser" =>
    /\ \A i \in 1..Len(calls) :
         (IsScan(i) /\ IsWhitespaceToken(i)) =>
           /\ calls[i].pos = Len(input) \/ ~isWhitespace(input[calls[i].pos + 1])
           /\ i < Len(calls) => (IsScan(i + 1) /\ ~IsWhitespaceToken(i + 1))
    /\ outcome = "running" =>
         /\ SkipsWhitespace(scanIgnoreWhitespace(Cur))
         /\ SkipsWhitespace(scanIgnoreWhitespace(scanIgnoreWhitespace(Cur).m))

\* ParseString of {"a" followed by a space, U+0000, a space and :1} has
\* scanned the space and U+0000 as one WHITESPACE token, the space after
\* them as the next, and ended with the error of a key that no colon follows.
C20_WhitespaceReturned ==
  /\ pkg = "parser"
  /\ input = Str(<<"{", "\"", "a", "\"", "sp", "nul", "sp", ":", "1", "}">>)
  /\ outcome = "error"
  /\ err = "found token, expected ':'"
  /\ IsScan(Len(calls)) /\ IsScan(Len(calls) - 1)
  /\ calls[Len(calls) - 1].token = Token("WHITESPACE", Str(<<"sp">>))
  /\ calls[Len(calls) - 1].pos = 6
  /\ calls[Len(calls)].token = Token("WHITESPACE", Str(<<"sp">>))
  /\ calls[Len(calls)].fresh
  /\ calls[Len(calls)].pos = 7

\* Whether the latest call of the Parser was a scan that read the closing
\* bracket or brace at the reader's position.
ClosedAtReader ==
  /\ calls # <<>>
  /\ IsScan(Len(calls))
  /\ calls[Len(calls)].fresh
  /\ calls[Len(calls)].pos = pos
  /\ calls[Len(calls)].token.Type \in { "SQUARED_BRACE_CLOSE", "CURLY_BRACE_CLOSE" }
  /\ pos >= 1
  /\ calls[Len(calls)].token.Runes = <<input[pos]>>

\* Whether ParseString of the text returns the value and leaves the reader
\* at the position of the current state.
ParsesAlike(r) == r.outcome = "ok" /\ r.ret = ret /\ r.pos = pos

\* C21: ParseString of package parser returns as soon as the top-level
\* object or array is closed and scans no token after its closing delimiter:
\* for every input that parses and every text put after it, ParseString
\* returns the same value and no error, so that trailing text as in {}x is
\* not rejected.
C21_TrailingTextIgnored ==
  pkg = "parser" =>
    /\ (Ended /\ outcome = "ok") =>
         /\ ClosedAtReader
         /\ \A t \in Trailers : ParsesAlike(Run(NewParserP(input \o t)))
    /\ (Ended /\ input \in Docs(TrailingCases)) =>
         \A c \in { x \in TrailingCases : x.doc = input } :
           /\ outcome = "ok"
           /\ ret = Run(NewParserP(c.base)).ret
           /\ pos = Len(c.base)

\* ParseString("{}x") has returned the empty object and no error, the
\* reader standing before x.
C21_TrailingLetterIgnored ==
  /\ pkg = "parser"
  /\ input = Str(<<"{", "}", "x">>)
  /\ outcome = "ok"
  /\ ret = Object(EmptyMap)
  /\ pos = 2

====
